---- MODULE Spec2Model ----
(***************************************************************************)
(* Task-manager API: the authentication/session lifecycle (register,       *)
(* login, refresh, logout), the withAuth gate and the user-scoped task     *)
(* handlers, as a state machine.  Every `await sql` of a route handler is  *)
(* one atomic step of the request that issues it; requests of different    *)
(* handler slots interleave between statements.                            *)
(***************************************************************************)
EXTENDS Integers, FiniteSets, Sequences, TLC

VARIABLES
    now,            \* wall clock, in seconds (the resolution of a JWT's iat / exp)
    ticks,          \* number of clock advances so far
    users,          \* table users
    refresh_tokens, \* table refresh_tokens
    tasks,          \* table tasks
    nextId,         \* next primary key handed out by the store
    req,            \* req[p]: the request handler slot p is processing
    nreq,           \* number of requests started so far
    issued,         \* token pairs that were returned to a client in a response
    consumed,       \* refresh tokens presented by a /auth/refresh that returned 200
    registered,     \* credentials (e-mail, password) of the registrations that returned 201
    overlapped,     \* TRUE once a request started while another was in flight
    pages,          \* the pages GET /tasks has answered with, and the rows they were cut from
    localStorage,   \* the browser's token cache (lib/auth.ts, client side)
    call,           \* call[c]: the fetchWithAuth call c of the browser client
    session         \* refresh tokens the browser client has held in its cache

vars == <<now, ticks, users, refresh_tokens, tasks, nextId, req, nreq, issued, consumed, registered, overlapped,
          pages, localStorage, call, session>>

clientVars == <<localStorage, call, session>>

(***************************************************************************)
(* Bounds of the model.                                                    *)
(***************************************************************************)
NumProcs == 2
MaxReqs == 2
MaxTicks == 1

Procs == 1..NumProcs

(***************************************************************************)
(* Token service (lib/auth.ts).  A JWT signed with HS256 is a function of  *)
(* its payload {userId, email, iat, exp} and of the secret of its class:   *)
(* two tokens of one class minted for one user in one clock second are the *)
(* same string.                                                            *)
(***************************************************************************)
ACCESS_TOKEN_EXPIRY == 900
REFRESH_TOKEN_EXPIRY == 604800

NoToken == [kind |-> "none", userId |-> 0, email |-> "", iat |-> 0, exp |-> 0]
\* a string that is no JWT signed with either secret
GarbageToken == [kind |-> "garbage", userId |-> 0, email |-> "", iat |-> 0, exp |-> 0]
NoTokens == [accessToken |-> NoToken, refreshToken |-> NoToken]
NoPayload == [ok |-> FALSE, userId |-> 0, email |-> ""]

generateAccessToken(payload, t) ==
    [kind |-> "access", userId |-> payload.userId, email |-> payload.email,
     iat |-> t, exp |-> t + ACCESS_TOKEN_EXPIRY]

generateRefreshToken(payload, t) ==
    [kind |-> "refresh", userId |-> payload.userId, email |-> payload.email,
     iat |-> t, exp |-> t + REFRESH_TOKEN_EXPIRY]

generateTokens(payload, t) ==
    [accessToken |-> generateAccessToken(payload, t),
     refreshToken |-> generateRefreshToken(payload, t)]

\* variant, wrong on purpose: the access secret also accepts tokens signed as refresh tokens
verifyAccessTokenAnyClass(token, t) ==
    IF token.kind \in {"access", "refresh"} /\ token.exp > t
    THEN [ok |-> TRUE, userId |-> token.userId, email |-> token.email]
    ELSE NoPayload

verifyAccessToken(token, t) ==
    IF token.kind = "access" /\ token.exp > t
    THEN [ok |-> TRUE, userId |-> token.userId, email |-> token.email]
    ELSE NoPayload

verifyRefreshToken(token, t) ==
    IF token.kind = "refresh" /\ token.exp > t
    THEN [ok |-> TRUE, userId |-> token.userId, email |-> token.email]
    ELSE NoPayload

getRefreshTokenExpiry(t) == t + REFRESH_TOKEN_EXPIRY

\* bcrypt: the hash determines which password verifies against it
hashPassword(password) == [alg |-> "bcrypt", saltRounds |-> 12, of |-> password]

\* variant, wrong on purpose: any password verifies
verifyPasswordAlways(password, hash) == TRUE

verifyPassword(password, hash) == hash.of = password

(***************************************************************************)
(* Strings of the request bodies.  Absent stands for a missing (or falsy)  *)
(* field.                                                                  *)
(***************************************************************************)
Absent == "<absent>"

WellFormedEmails == {"a@x.io", "A@x.io", "b@x.io"}
MalformedEmails == {"a.x.io"}

toLowerCase(s) == IF s = "A@x.io" THEN "a@x.io" ELSE s

\* String.prototype.trim on the strings of the model
trim(s) ==
    CASE s = " Al "        -> "Al"
      [] s = " a "         -> "a"
      [] s = " Buy milk "  -> "Buy milk"
      [] s = " Call Bob "  -> "Call Bob"
      [] s = "   "         -> ""
      [] OTHER             -> s

StrLen(s) ==
    CASE s = "a"         -> 1
      [] s = "Al"        -> 2
      [] s = "Bo"        -> 2
      [] s = "short"     -> 5
      [] s = "password1" -> 9
      [] s = "password2" -> 9
      [] s = "soon"      -> 4
      [] s = "Buy milk"  -> 8
      [] s = "Call Bob"  -> 8
      [] OTHER           -> 0

isValidEmail(email) == email \in WellFormedEmails

isValidPassword(password) == StrLen(password) >= 8

\* the messages of validateRegister's errors, in the order they are pushed
validateRegisterErrors(body) ==
    (IF body.email = Absent THEN <<"Email is required">>
     ELSE IF ~isValidEmail(body.email) THEN <<"Invalid email format">>
     ELSE <<>>)
    \o
    (IF body.password = Absent THEN <<"Password is required">>
     ELSE IF ~isValidPassword(body.password) THEN <<"Password must be at least 8 characters">>
     ELSE <<>>)
    \o
    (IF body.name = Absent THEN <<"Name is required">>
     ELSE IF StrLen(trim(body.name)) < 2 THEN <<"Name must be at least 2 characters">>
     ELSE <<>>)

validateRegister(body) ==
    LET errors == validateRegisterErrors(body) IN
    IF errors # <<>>
    THEN [valid |-> FALSE, errors |-> errors, data |-> body]
    ELSE [valid |-> TRUE, errors |-> <<>>,
          data |-> [email |-> trim(toLowerCase(body.email)),
                    password |-> body.password,
                    name |-> trim(body.name)]]

validateLoginErrors(body) ==
    (IF body.email = Absent THEN <<"Email is required">>
     ELSE IF ~isValidEmail(body.email) THEN <<"Invalid email format">>
     ELSE <<>>)
    \o
    (IF body.password = Absent THEN <<"Password is required">> ELSE <<>>)

validateLogin(body) ==
    LET errors == validateLoginErrors(body) IN
    IF errors # <<>>
    THEN [valid |-> FALSE, errors |-> errors, data |-> body]
    ELSE [valid |-> TRUE, errors |-> <<>>,
          data |-> [email |-> trim(toLowerCase(body.email)),
                    password |-> body.password]]

(***************************************************************************)
(* The relational store.  Each operator is one SQL statement of a route    *)
(* handler, as a function of the table it reads.                           *)
(***************************************************************************)

\* users(email unique): the INSERT of a second row with this e-mail is rejected
UsersEmailUnique(rows, email) == \A u \in rows : u.email # email

\* refresh_tokens(token unique): the INSERT of a second row with this token is rejected
RefreshTokensTokenUnique(rows, token) == \A r \in rows : r.token # token

\* SELECT ... FROM users WHERE email = ${email}
SelectUsersByEmail(rows, email) == {u \in rows : u.email = email}

\* SELECT id, email FROM users WHERE id = ${id}
\* variant, wrong on purpose: the WHERE clause is missing
SelectUsersAll(rows, id) == rows

SelectUsersById(rows, id) == {u \in rows : u.id = id}

\* variant, wrong on purpose: the lookup ignores expires_at and the token, matching the JWT's user only
SelectStoredTokensByUser(rows, token, t) == {r \in rows : r.user_id = token.userId}

\* SELECT id, user_id, expires_at FROM refresh_tokens WHERE token = ${refreshToken} AND expires_at > NOW()
SelectStoredTokens(rows, token, t) == {r \in rows : r.token = token /\ r.expires_at > t}

\* DELETE FROM refresh_tokens WHERE id = ${storedToken.id}
DeleteRefreshTokenById(rows, id) == {r \in rows : r.id # id}

\* variant, wrong on purpose: the DELETE is scoped by token only
DeleteRefreshTokenAnyUser(rows, userId, token) ==
    {r \in rows : r.token # token}

\* DELETE FROM refresh_tokens WHERE user_id = ${payload.userId} AND token = ${refreshToken}
DeleteRefreshTokenOfUser(rows, userId, token) ==
    {r \in rows : ~(r.user_id = userId /\ r.token = token)}

\* DELETE FROM refresh_tokens WHERE user_id = ${payload.userId}
DeleteRefreshTokensOfUser(rows, userId) == {r \in rows : r.user_id # userId}

RefreshTokenRow(id, userId, token, t) ==
    [id |-> id, user_id |-> userId, token |-> token, expires_at |-> getRefreshTokenExpiry(t)]

UserRow(id, data) ==
    [id |-> id, email |-> data.email, password_hash |-> hashPassword(data.password),
     name |-> data.name]

UserPublic(u) == [id |-> u.id, email |-> u.email, name |-> u.name]

(***************************************************************************)
(* Requests and responses.                                                 *)
(***************************************************************************)
NoHeader == [scheme |-> "none", token |-> NoToken]
NoBody == [kind |-> "none"]
NoData == [kind |-> "none"]
NoLoc == [userId |-> 0, email |-> "", rowId |-> 0]
NoResp == [status |-> 0, success |-> FALSE, error |-> "", data |-> NoData]

IdleReq ==
    [kind |-> "none", pc |-> "idle", n |-> 0, at |-> 0, header |-> NoHeader,
     user |-> NoPayload, body |-> NoBody, loc |-> NoLoc, resp |-> NoResp,
     replay |-> FALSE, known |-> FALSE, during |-> {}]

\* NextResponse.json({ success: false, error }, { status })
ErrorResponse(status, error) ==
    [status |-> status, success |-> FALSE, error |-> error, data |-> NoData]

\* NextResponse.json({ success: true, data, message }, { status })
SuccessResponse(status, data) ==
    [status |-> status, success |-> TRUE, error |-> "", data |-> data]

InFlight(p) == req[p].pc \notin {"idle", "done"}
Done(p) == req[p].pc = "done"
\* an arriving request is taken by the first slot that is free
CanStart(p) ==
    /\ ~InFlight(p)
    /\ \A q \in Procs : q < p => InFlight(q)
    /\ nreq < MaxReqs

\* the Authorization headers a client can send: none, another scheme, or a
\* bearer string that is garbage or a token some response handed out
Headers ==
    {NoHeader, [scheme |-> "Basic", token |-> GarbageToken]}
    \cup {[scheme |-> "Bearer", token |-> t] :
            t \in {GarbageToken} \cup {pr.accessToken : pr \in issued}
                                 \cup {pr.refreshToken : pr \in issued}}

\* the refreshToken fields a client can send to /auth/refresh
PresentableTokens ==
    {NoToken, GarbageToken} \cup {pr.refreshToken : pr \in issued}
                            \cup {pr.accessToken : pr \in issued}

\* the refreshToken fields a client can send to /auth/logout (none, one that
\* matches no record, or a refresh token some response handed out)
RevocableTokens == {NoToken, GarbageToken} \cup {pr.refreshToken : pr \in issued}

\* a request arrives at slot p; user is the identity its handler is called with
\* (NoPayload when there is none); the request is left at pc, or answered at
\* once when pc is "done"
Arrive(p, kind, header, user, body, pc, resp) ==
    /\ req' = [req EXCEPT ![p] =
                 [kind |-> kind, pc |-> pc, n |-> nreq + 1, at |-> now, header |-> header,
                  user |-> user, body |-> body, loc |-> NoLoc, resp |-> resp,
                  \* bookkeeping: what was true when the request arrived
                  replay |-> (kind = "refresh" /\ body.refreshToken \in consumed),
                  known |-> (kind = "login" /\
                             [email |-> toLowerCase(body.email), password |-> body.password]
                                 \in registered),
                  during |-> {req[q].n : q \in {r \in Procs \ {p} : InFlight(r)}}]]
    /\ nreq' = nreq + 1
    /\ overlapped' = (overlapped \/ \E q \in Procs \ {p} : InFlight(q))
    /\ pages' = pages

\* a request of a client outside the model's browser arrives
Begin(p, kind, header, user, body, pc, resp) ==
    /\ Arrive(p, kind, header, user, body, pc, resp)
    /\ UNCHANGED clientVars

\* the handler moves on to its next statement
Goto(p, pc, loc) ==
    /\ req' = [req EXCEPT ![p].pc = pc, ![p].loc = loc]
    /\ pages' = pages
    /\ UNCHANGED clientVars

\* the handler returns its response
Return(p, resp) ==
    /\ req' = [req EXCEPT ![p].pc = "done", ![p].loc = NoLoc, ![p].resp = resp]
    /\ UNCHANGED clientVars

Finish(p, resp) ==
    /\ Return(p, resp)
    /\ pages' = pages

\* no fetchWithAuth call is running
IdleCall ==
    [pc |-> "idle", api |-> "none", accessToken |-> NoToken, body |-> NoBody,
     refreshes |-> 0, resends |-> 0, sent |-> 0, error |-> ""]

\* a browser that holds no tokens and makes no calls
NoBrowser ==
    /\ localStorage = NoTokens
    /\ call = [c \in Procs |-> IdleCall]
    /\ session = {}

(***************************************************************************)
(* POST /auth/register                                                     *)
(***************************************************************************)
RegisterBodies ==
    {[email |-> e, password |-> "password1", name |-> " Al "] : e \in WellFormedEmails}
    \cup {[email |-> "a.x.io", password |-> "password1", name |-> "Al"],
          [email |-> "a@x.io", password |-> "short", name |-> "Al"],
          [email |-> "b@x.io", password |-> "password2", name |-> Absent],
          [email |-> "a.x.io", password |-> "short", name |-> " a "]}

StartRegister(p) ==
    /\ CanStart(p)
    /\ \E body \in RegisterBodies :
         LET validation == validateRegister(body) IN
         IF ~validation.valid
         THEN Begin(p, "register", NoHeader, NoPayload, body, "done",
                    ErrorResponse(400, validation.errors[1]))
         ELSE Begin(p, "register", NoHeader, NoPayload, body, "register_select", NoResp)
    /\ UNCHANGED <<now, ticks, users, refresh_tokens, tasks, nextId, issued, consumed, registered>>

\* SELECT id FROM users WHERE email = ${email}
RegisterSelect(p) ==
    /\ req[p].pc = "register_select"
    /\ LET data == validateRegister(req[p].body).data IN
       IF SelectUsersByEmail(users, data.email) # {}
       THEN Finish(p, ErrorResponse(409, "Email already registered"))
       ELSE Goto(p, "register_insert_user", NoLoc)
    /\ UNCHANGED <<now, ticks, users, refresh_tokens, tasks, nextId, nreq, issued, consumed, registered, overlapped>>

\* hashPassword, then INSERT INTO users ... RETURNING id, email, name, created_at
RegisterInsertUser(p) ==
    /\ req[p].pc = "register_insert_user"
    /\ LET data == validateRegister(req[p].body).data IN
       IF ~UsersEmailUnique(users, data.email)
       THEN \* the store rejects the row; the handler's catch answers
            /\ Finish(p, ErrorResponse(500, "Internal server error"))
            /\ UNCHANGED <<users, nextId>>
       ELSE /\ users' = users \cup {UserRow(nextId, data)}
            /\ nextId' = nextId + 1
            /\ Goto(p, "register_insert_token",
                    [userId |-> nextId, email |-> data.email, rowId |-> 0])
    /\ UNCHANGED <<now, ticks, refresh_tokens, tasks, nreq, issued, consumed, registered, overlapped>>

\* generateTokens, then INSERT INTO refresh_tokens (user_id, token, expires_at)
RegisterInsertToken(p) ==
    /\ req[p].pc = "register_insert_token"
    /\ LET user == CHOOSE u \in users : u.id = req[p].loc.userId
           tokens == generateTokens([userId |-> user.id, email |-> user.email], now)
       IN
       IF ~RefreshTokensTokenUnique(refresh_tokens, tokens.refreshToken)
       THEN /\ Finish(p, ErrorResponse(500, "Internal server error"))
            /\ UNCHANGED <<refresh_tokens, nextId, issued, registered>>
       ELSE /\ refresh_tokens' = refresh_tokens \cup
                  {RefreshTokenRow(nextId, user.id, tokens.refreshToken, now)}
            /\ nextId' = nextId + 1
            /\ issued' = issued \cup {tokens}
            /\ registered' = registered \cup
                  {[email |-> toLowerCase(req[p].body.email), password |-> req[p].body.password]}
            /\ Finish(p, SuccessResponse(201,
                   [kind |-> "user+tokens", user |-> UserPublic(user), tokens |-> tokens]))
    /\ UNCHANGED <<now, ticks, users, tasks, nreq, consumed, overlapped>>

(***************************************************************************)
(* POST /auth/login                                                        *)
(***************************************************************************)
LoginBodies ==
    {[email |-> e, password |-> "password1"] : e \in WellFormedEmails}
    \cup {[email |-> "a@x.io", password |-> "password2"],
          [email |-> "a.x.io", password |-> "password1"],
          [email |-> "b@x.io", password |-> Absent],
          [email |-> Absent, password |-> Absent]}

StartLogin(p) ==
    /\ CanStart(p)
    /\ \E body \in LoginBodies :
         LET validation == validateLogin(body) IN
         IF ~validation.valid
         THEN Begin(p, "login", NoHeader, NoPayload, body, "done",
                    ErrorResponse(400, validation.errors[1]))
         ELSE Begin(p, "login", NoHeader, NoPayload, body, "login_select", NoResp)
    /\ UNCHANGED <<now, ticks, users, refresh_tokens, tasks, nextId, issued, consumed, registered>>

\* SELECT ... FROM users WHERE email = ${email}, then verifyPassword
LoginSelect(p) ==
    /\ req[p].pc = "login_select"
    /\ LET data == validateLogin(req[p].body).data
           found == SelectUsersByEmail(users, data.email)
       IN
       IF found = {}
       THEN Finish(p, ErrorResponse(401, "Invalid email or password"))
       ELSE LET user == CHOOSE u \in found : TRUE IN
            IF ~verifyPassword(data.password, user.password_hash)
            THEN Finish(p, ErrorResponse(401, "Invalid email or password"))
            ELSE Goto(p, "login_insert", [userId |-> user.id, email |-> user.email, rowId |-> 0])
    /\ UNCHANGED <<now, ticks, users, refresh_tokens, tasks, nextId, nreq, issued, consumed, registered, overlapped>>

\* generateTokens, then INSERT INTO refresh_tokens (user_id, token, expires_at)
LoginInsert(p) ==
    /\ req[p].pc = "login_insert"
    /\ LET user == CHOOSE u \in users : u.id = req[p].loc.userId
           tokens == generateTokens([userId |-> user.id, email |-> user.email], now)
       IN
       IF ~RefreshTokensTokenUnique(refresh_tokens, tokens.refreshToken)
       THEN /\ Finish(p, ErrorResponse(500, "Internal server error"))
            /\ UNCHANGED <<refresh_tokens, nextId, issued>>
       ELSE /\ refresh_tokens' = refresh_tokens \cup
                  {RefreshTokenRow(nextId, user.id, tokens.refreshToken, now)}
            /\ nextId' = nextId + 1
            /\ issued' = issued \cup {tokens}
            /\ Finish(p, SuccessResponse(200,
                   [kind |-> "user+tokens", user |-> UserPublic(user), tokens |-> tokens]))
    /\ UNCHANGED <<now, ticks, users, tasks, nreq, consumed, registered, overlapped>>

(***************************************************************************)
(* POST /auth/refresh                                                      *)
(***************************************************************************)
\* the checks of the handler before its first store statement
RefreshEnter(token, t) ==
    IF token = NoToken
    THEN [pc |-> "done", resp |-> ErrorResponse(400, "Refresh token is required")]
    ELSE IF ~verifyRefreshToken(token, t).ok
    THEN [pc |-> "done", resp |-> ErrorResponse(401, "Invalid refresh token")]
    ELSE [pc |-> "refresh_select", resp |-> NoResp]

StartRefresh(p) ==
    /\ CanStart(p)
    /\ \E token \in PresentableTokens :
         Begin(p, "refresh", NoHeader, NoPayload, [refreshToken |-> token],
               RefreshEnter(token, now).pc, RefreshEnter(token, now).resp)
    /\ UNCHANGED <<now, ticks, users, refresh_tokens, tasks, nextId, issued, consumed, registered>>

\* SELECT id, user_id, expires_at FROM refresh_tokens WHERE token = ... AND expires_at > NOW()
RefreshSelect(p) ==
    /\ req[p].pc = "refresh_select"
    /\ LET storedTokens == SelectStoredTokens(refresh_tokens, req[p].body.refreshToken, now) IN
       IF storedTokens = {}
       THEN Finish(p, ErrorResponse(401, "Refresh token expired or revoked"))
       ELSE LET storedToken == CHOOSE r \in storedTokens : TRUE IN
            Goto(p, "refresh_user",
                 [userId |-> storedToken.user_id, email |-> "", rowId |-> storedToken.id])
    /\ UNCHANGED <<now, ticks, users, refresh_tokens, tasks, nextId, nreq, issued, consumed, registered, overlapped>>

\* SELECT id, email FROM users WHERE id = ${storedToken.user_id}
RefreshSelectUser(p) ==
    /\ req[p].pc = "refresh_user"
    /\ LET found == SelectUsersById(users, req[p].loc.userId) IN
       IF found = {}
       THEN Finish(p, ErrorResponse(401, "User not found"))
       ELSE LET user == CHOOSE u \in found : TRUE IN
            Goto(p, "refresh_delete",
                 [req[p].loc EXCEPT !.userId = user.id, !.email = user.email])
    /\ UNCHANGED <<now, ticks, users, refresh_tokens, tasks, nextId, nreq, issued, consumed, registered, overlapped>>

\* DELETE FROM refresh_tokens WHERE id = ${storedToken.id}; the number of rows
\* deleted is not looked at
RefreshDelete(p) ==
    /\ req[p].pc = "refresh_delete"
    /\ refresh_tokens' = DeleteRefreshTokenById(refresh_tokens, req[p].loc.rowId)
    /\ Goto(p, "refresh_insert", req[p].loc)
    /\ UNCHANGED <<now, ticks, users, tasks, nextId, nreq, issued, consumed, registered, overlapped>>

\* generateTokens, then INSERT INTO refresh_tokens (user_id, token, expires_at)
RefreshInsert(p) ==
    /\ req[p].pc = "refresh_insert"
    /\ LET user == req[p].loc
           newTokens == generateTokens([userId |-> user.userId, email |-> user.email], now)
       IN
       IF ~RefreshTokensTokenUnique(refresh_tokens, newTokens.refreshToken)
       THEN /\ Finish(p, ErrorResponse(500, "Internal server error"))
            /\ UNCHANGED <<refresh_tokens, nextId, issued, consumed>>
       ELSE /\ refresh_tokens' = refresh_tokens \cup
                  {RefreshTokenRow(nextId, user.userId, newTokens.refreshToken, now)}
            /\ nextId' = nextId + 1
            /\ issued' = issued \cup {newTokens}
            /\ consumed' = consumed \cup {req[p].body.refreshToken}
            /\ Finish(p, SuccessResponse(200, [kind |-> "tokens", tokens |-> newTokens]))
    /\ UNCHANGED <<now, ticks, users, tasks, nreq, registered, overlapped>>

(***************************************************************************)
(* POST /auth/logout                                                       *)
(***************************************************************************)
\* the checks of the handler before its store statement; the body is read
\* only once the access token has verified
LogoutEnter(header, token, t) ==
    IF header.scheme # "Bearer"
    THEN [user |-> NoPayload, body |-> [refreshToken |-> NoToken], pc |-> "done",
          resp |-> ErrorResponse(401, "Authorization header required")]
    ELSE LET payload == verifyAccessToken(header.token, t) IN
         IF ~payload.ok
         THEN [user |-> NoPayload, body |-> [refreshToken |-> NoToken], pc |-> "done",
               resp |-> ErrorResponse(401, "Invalid access token")]
         ELSE [user |-> payload, body |-> [refreshToken |-> token], pc |-> "logout_delete",
               resp |-> NoResp]

StartLogout(p) ==
    /\ CanStart(p)
    /\ \E header \in Headers :
         \E token \in IF LogoutEnter(header, NoToken, now).pc = "done" THEN {NoToken}
                      ELSE RevocableTokens :
            LET enter == LogoutEnter(header, token, now) IN
            Begin(p, "logout", header, enter.user, enter.body, enter.pc, enter.resp)
    /\ UNCHANGED <<now, ticks, users, refresh_tokens, tasks, nextId, issued, consumed, registered>>

\* DELETE FROM refresh_tokens WHERE user_id = ... [AND token = ...]
LogoutDelete(p) ==
    /\ req[p].pc = "logout_delete"
    /\ refresh_tokens' =
         IF req[p].body.refreshToken # NoToken
         THEN DeleteRefreshTokenOfUser(refresh_tokens, req[p].user.userId, req[p].body.refreshToken)
         ELSE DeleteRefreshTokensOfUser(refresh_tokens, req[p].user.userId)
    /\ Finish(p, SuccessResponse(200, NoData))
    /\ UNCHANGED <<now, ticks, users, tasks, nextId, nreq, issued, consumed, registered, overlapped>>

(***************************************************************************)
(* The clock: time passes until the access tokens minted so far have       *)
(* expired, or until the refresh tokens have.                              *)
(***************************************************************************)
Tick ==
    /\ ticks < MaxTicks
    /\ \E d \in {ACCESS_TOKEN_EXPIRY, REFRESH_TOKEN_EXPIRY} : now' = now + d
    /\ ticks' = ticks + 1
    /\ UNCHANGED <<users, refresh_tokens, tasks, nextId, req, nreq, issued, consumed, registered, overlapped, pages, clientVars>>

(***************************************************************************)
(* The authentication service: an empty store, and clients that register,  *)
(* log in, refresh and log out.                                            *)
(***************************************************************************)
Init ==
    /\ now = 0
    /\ ticks = 0
    /\ users = {}
    /\ refresh_tokens = {}
    /\ tasks = {}
    /\ nextId = 1
    /\ req = [p \in Procs |-> IdleReq]
    /\ nreq = 0
    /\ issued = {}
    /\ consumed = {}
    /\ registered = {}
    /\ overlapped = FALSE
    /\ pages = {}
    /\ NoBrowser

AuthStep(p) ==
    \/ StartRegister(p)
    \/ RegisterSelect(p)
    \/ RegisterInsertUser(p)
    \/ RegisterInsertToken(p)
    \/ StartLogin(p)
    \/ LoginSelect(p)
    \/ LoginInsert(p)
    \/ StartRefresh(p)
    \/ RefreshSelect(p)
    \/ RefreshSelectUser(p)
    \/ RefreshDelete(p)
    \/ RefreshInsert(p)
    \/ StartLogout(p)
    \/ LogoutDelete(p)

Next == Tick \/ \E p \in Procs : AuthStep(p)

Spec == Init /\ [][Next]_vars

(***************************************************************************)
(* The service in use: a@x.io and b@x.io registered in second 0, a@x.io    *)
(* logged in again (a second device) in second 1, and every response has   *)
(* reached its client.                                                     *)
(***************************************************************************)
SeedUsers ==
    {UserRow(1, [email |-> "a@x.io", password |-> "password1", name |-> "Al"]),
     UserRow(3, [email |-> "b@x.io", password |-> "password1", name |-> "Bo"])}

SeedIssued ==
    {generateTokens([userId |-> 1, email |-> "a@x.io"], 0),
     generateTokens([userId |-> 3, email |-> "b@x.io"], 0),
     generateTokens([userId |-> 1, email |-> "a@x.io"], 1)}

SeedRefreshTokens ==
    {RefreshTokenRow(2, 1, generateRefreshToken([userId |-> 1, email |-> "a@x.io"], 0), 0),
     RefreshTokenRow(4, 3, generateRefreshToken([userId |-> 3, email |-> "b@x.io"], 0), 0),
     RefreshTokenRow(5, 1, generateRefreshToken([userId |-> 1, email |-> "a@x.io"], 1), 1)}

InitSession ==
    /\ now = 1
    /\ ticks = 0
    /\ users = SeedUsers
    /\ refresh_tokens = SeedRefreshTokens
    /\ tasks = {}
    /\ nextId = 6
    /\ req = [p \in Procs |-> IdleReq]
    /\ nreq = 0
    /\ issued = SeedIssued
    /\ consumed = {}
    /\ registered = {[email |-> u.email, password |-> u.password_hash.of] : u \in SeedUsers}
    /\ overlapped = FALSE
    /\ pages = {}
    /\ NoBrowser

SessionStep(p) ==
    \/ StartRefresh(p)
    \/ RefreshSelect(p)
    \/ RefreshSelectUser(p)
    \/ RefreshDelete(p)
    \/ RefreshInsert(p)
    \/ StartLogout(p)
    \/ LogoutDelete(p)

NextSession == Tick \/ \E p \in Procs : SessionStep(p)

SpecSession == InitSession /\ [][NextSession]_vars

(***************************************************************************)
(* The Auth Gate (lib/middleware.ts): the wrapped handler is called with   *)
(* the payload of the bearer token, or the request is answered 401.        *)
(***************************************************************************)

\* variant, wrong on purpose: the gate also asks for a live session of the token's user
withAuthCheckingSession(header, t) ==
    IF header.scheme # "Bearer"
    THEN [ok |-> FALSE, error |-> "Authorization header required", payload |-> NoPayload]
    ELSE LET payload == verifyAccessToken(header.token, t) IN
         IF ~payload.ok \/ \A r \in refresh_tokens : r.user_id # payload.userId
         THEN [ok |-> FALSE, error |-> "Invalid or expired access token", payload |-> NoPayload]
         ELSE [ok |-> TRUE, error |-> "", payload |-> payload]

withAuth(header, t) ==
    IF header.scheme # "Bearer"
    THEN [ok |-> FALSE, error |-> "Authorization header required", payload |-> NoPayload]
    ELSE LET payload == verifyAccessToken(header.token, t) IN
         IF ~payload.ok
         THEN [ok |-> FALSE, error |-> "Invalid or expired access token", payload |-> NoPayload]
         ELSE [ok |-> TRUE, error |-> "", payload |-> payload]

(***************************************************************************)
(* Task bodies and their validation (lib/validation.ts).  Absent is         *)
(* undefined, Null is null.                                                *)
(***************************************************************************)
Null == "<null>"

validStatuses == {"pending", "in_progress", "completed"}
validPriorities == {"low", "medium", "high"}

\* !x for the string-or-missing values of the model
Falsy(x) == x \in {Absent, Null, ""}

\* !Number.isNaN(new Date(s).getTime())
IsDate(s) == s \in {"2026-01-31"}

\* new Date(s).toISOString()
toISOString(s) == IF s = "2026-01-31" THEN "2026-01-31T00:00:00.000Z" ELSE s

NoTaskFields ==
    [title |-> Absent, description |-> Absent, status |-> Absent, priority |-> Absent,
     due_date |-> Absent]

validateCreateTaskErrors(body) ==
    (IF Falsy(body.title) THEN <<"Title is required">>
     ELSE IF StrLen(trim(body.title)) < 1 THEN <<"Title cannot be empty">>
     ELSE IF StrLen(trim(body.title)) > 255 THEN <<"Title must be less than 255 characters">>
     ELSE <<>>)
    \o
    (IF body.description = Null THEN <<"Description must be a string">> ELSE <<>>)
    \o
    (IF body.status # Absent /\ body.status \notin validStatuses
     THEN <<"Status must be pending, in_progress, or completed">> ELSE <<>>)
    \o
    (IF body.priority # Absent /\ body.priority \notin validPriorities
     THEN <<"Priority must be low, medium, or high">> ELSE <<>>)
    \o
    (IF body.due_date # Absent /\ body.due_date # Null /\ ~IsDate(body.due_date)
     THEN <<"Invalid date format">> ELSE <<>>)

validateCreateTask(body) ==
    LET errors == validateCreateTaskErrors(body) IN
    IF errors # <<>>
    THEN [valid |-> FALSE, errors |-> errors, data |-> body]
    ELSE [valid |-> TRUE, errors |-> <<>>,
          data |-> [title |-> trim(body.title),
                    description |-> IF Falsy(body.description) THEN Absent
                                    ELSE trim(body.description),
                    status |-> body.status,
                    priority |-> body.priority,
                    due_date |-> body.due_date]]

validateUpdateTaskErrors(body) ==
    (IF body = NoTaskFields THEN <<"At least one field must be provided">> ELSE <<>>)
    \o
    (IF body.title = Absent THEN <<>>
     ELSE IF body.title = Null THEN <<"Title must be a string">>
     ELSE IF StrLen(trim(body.title)) < 1 THEN <<"Title cannot be empty">>
     ELSE IF StrLen(trim(body.title)) > 255 THEN <<"Title must be less than 255 characters">>
     ELSE <<>>)
    \o
    (IF body.status # Absent /\ body.status \notin validStatuses
     THEN <<"Status must be pending, in_progress, or completed">> ELSE <<>>)
    \o
    (IF body.priority # Absent /\ body.priority \notin validPriorities
     THEN <<"Priority must be low, medium, or high">> ELSE <<>>)
    \o
    (IF body.due_date # Absent /\ body.due_date # Null /\ ~IsDate(body.due_date)
     THEN <<"Invalid date format">> ELSE <<>>)

validateUpdateTask(body) ==
    LET errors == validateUpdateTaskErrors(body) IN
    IF errors # <<>>
    THEN [valid |-> FALSE, errors |-> errors, data |-> body]
    ELSE [valid |-> TRUE, errors |-> <<>>,
          data |-> [title |-> IF body.title # Absent THEN trim(body.title) ELSE Absent,
                    description |-> IF body.description = Absent THEN Absent
                                    ELSE IF body.description = Null THEN Absent
                                    ELSE trim(body.description),
                    status |-> body.status,
                    priority |-> body.priority,
                    due_date |-> body.due_date]]

(***************************************************************************)
(* Table tasks: the statements of the task handlers.                       *)
(***************************************************************************)

\* variant, wrong on purpose: the row is looked up by id alone
SelectTaskById(rows, id, userId) == {t \in rows : t.id = id}

\* SELECT ... FROM tasks WHERE id = ${taskId} AND user_id = ${user.userId}
SelectTaskOfUser(rows, id, userId) == {t \in rows : t.id = id /\ t.user_id = userId}

\* DELETE FROM tasks WHERE id = ${taskId} AND user_id = ${user.userId} RETURNING id
DeleteTaskOfUser(rows, id, userId) == {t \in rows : ~(t.id = id /\ t.user_id = userId)}

\* UPDATE tasks SET ... WHERE id = ${taskId} AND user_id = ${user.userId}: the
\* matching rows, rewritten by set
UpdateTaskOfUser(rows, id, userId, set) ==
    {IF t.id = id /\ t.user_id = userId THEN set[t] ELSE t : t \in rows}

\* INSERT INTO tasks (user_id, title, description, status, priority, due_date)
TaskRow(id, userId, data, t) ==
    [id |-> id, user_id |-> userId, title |-> data.title,
     description |-> IF Falsy(data.description) THEN Null ELSE data.description,
     status |-> IF Falsy(data.status) THEN "pending" ELSE data.status,
     priority |-> IF Falsy(data.priority) THEN "medium" ELSE data.priority,
     due_date |-> IF Falsy(data.due_date) THEN Null ELSE toISOString(data.due_date),
     created_at |-> t, updated_at |-> t]

\* the row updateTask writes: the fields of the request over the row it read
MergeTask(existingTask, updates) ==
    [title |-> IF updates.title # Absent THEN updates.title ELSE existingTask.title,
     description |-> IF updates.description # Absent
                     THEN (IF Falsy(updates.description) THEN Null ELSE updates.description)
                     ELSE existingTask.description,
     status |-> IF updates.status # Absent THEN updates.status ELSE existingTask.status,
     priority |-> IF updates.priority # Absent THEN updates.priority ELSE existingTask.priority,
     due_date |-> IF updates.due_date # Absent
                  THEN (IF Falsy(updates.due_date) THEN Null ELSE toISOString(updates.due_date))
                  ELSE existingTask.due_date]

\* variant, wrong on purpose: only a pending task becomes completed
ToggledStatusPendingOnly(currentStatus) ==
    IF currentStatus = "pending" THEN "completed" ELSE "pending"

\* toggle: if completed -> pending, otherwise -> completed
ToggledStatus(currentStatus) == IF currentStatus = "completed" THEN "pending" ELSE "completed"

\* the ids a client can put in /tasks/:id : those of the rows, and one of no row
TaskIds == {t.id : t \in tasks} \cup {0}

\* a request to a handler wrapped by withAuth arrives: bodies are the bodies
\* the client may send, enter[body] is where the handler stands after its
\* synchronous prefix
BeginProtected(p, kind, bodies, enter) ==
    \E header \in Headers :
        LET gate == withAuth(header, now) IN
        IF ~gate.ok
        THEN Begin(p, kind, header, NoPayload, NoBody, "done", ErrorResponse(401, gate.error))
        ELSE \E body \in bodies :
                Begin(p, kind, header, gate.payload, body, enter[body].pc, enter[body].resp)

(***************************************************************************)
(* POST /tasks                                                             *)
(***************************************************************************)
CreateTaskBodies ==
    {\* this body also names an owner, a field the handler does not read
     [title |-> " Buy milk ", description |-> Absent, status |-> Absent,
      priority |-> Absent, due_date |-> Absent, user_id |-> 3],
     [NoTaskFields EXCEPT !.title = "Call Bob", !.description = "soon",
                          !.status = "in_progress", !.priority = "high",
                          !.due_date = "2026-01-31"],
     [NoTaskFields EXCEPT !.title = "   "],
     [NoTaskFields EXCEPT !.status = "done"]}

CreateTaskEnter(body) ==
    LET validation == validateCreateTask(body) IN
    IF ~validation.valid
    THEN [pc |-> "done", resp |-> ErrorResponse(400, validation.errors[1])]
    ELSE [pc |-> "create_insert", resp |-> NoResp]

StartCreateTask(p) ==
    /\ CanStart(p)
    /\ BeginProtected(p, "createTask", CreateTaskBodies,
                      [body \in CreateTaskBodies |-> CreateTaskEnter(body)])
    /\ UNCHANGED <<now, ticks, users, refresh_tokens, tasks, nextId, issued, consumed, registered>>

\* variant, wrong on purpose: the owner is the user_id of the body when it has one
CreateTaskInsertOwnerFromBody(p) ==
    /\ req[p].pc = "create_insert"
    /\ LET owner == IF "user_id" \in DOMAIN req[p].body THEN req[p].body.user_id
                    ELSE req[p].user.userId
           task == TaskRow(nextId, owner, validateCreateTask(req[p].body).data, now) IN
       /\ tasks' = tasks \cup {task}
       /\ nextId' = nextId + 1
       /\ Finish(p, SuccessResponse(201, [kind |-> "task", task |-> task]))
    /\ UNCHANGED <<now, ticks, users, refresh_tokens, nreq, issued, consumed, registered, overlapped>>

\* INSERT INTO tasks ... RETURNING ...
CreateTaskInsert(p) ==
    /\ req[p].pc = "create_insert"
    /\ LET task == TaskRow(nextId, req[p].user.userId, validateCreateTask(req[p].body).data, now) IN
       /\ tasks' = tasks \cup {task}
       /\ nextId' = nextId + 1
       /\ Finish(p, SuccessResponse(201, [kind |-> "task", task |-> task]))
    /\ UNCHANGED <<now, ticks, users, refresh_tokens, nreq, issued, consumed, registered, overlapped>>

(***************************************************************************)
(* GET /tasks/:id                                                          *)
(***************************************************************************)
TaskIdBodies == {[id |-> id] : id \in TaskIds}

GetTaskEnter(body) == [pc |-> "get_select", resp |-> NoResp]

StartGetTask(p) ==
    /\ CanStart(p)
    /\ BeginProtected(p, "getTask", TaskIdBodies,
                      [body \in TaskIdBodies |-> GetTaskEnter(body)])
    /\ UNCHANGED <<now, ticks, users, refresh_tokens, tasks, nextId, issued, consumed, registered>>

\* SELECT ... FROM tasks WHERE id = ${taskId} AND user_id = ${user.userId}
GetTaskSelect(p) ==
    /\ req[p].pc = "get_select"
    /\ LET found == SelectTaskOfUser(tasks, req[p].body.id, req[p].user.userId) IN
       IF found = {}
       THEN Finish(p, ErrorResponse(404, "Task not found"))
       ELSE Finish(p, SuccessResponse(200, [kind |-> "task", task |-> CHOOSE t \in found : TRUE]))
    /\ UNCHANGED <<now, ticks, users, refresh_tokens, tasks, nextId, nreq, issued, consumed, registered, overlapped>>

(***************************************************************************)
(* PATCH /tasks/:id                                                        *)
(***************************************************************************)
UpdateTaskPatches ==
    {[NoTaskFields EXCEPT !.status = "completed"],
     [NoTaskFields EXCEPT !.title = " Call Bob ", !.description = Null],
     NoTaskFields,
     [NoTaskFields EXCEPT !.priority = "urgent"]}

UpdateTaskBodies ==
    {[id |-> id, patch |-> patch] : id \in TaskIds, patch \in UpdateTaskPatches}

\* variant, wrong on purpose: the body goes to the store unvalidated
UpdateTaskEnterUnvalidated(body) == [pc |-> "update_select", resp |-> NoResp]

UpdateTaskEnter(body) ==
    LET validation == validateUpdateTask(body.patch) IN
    IF ~validation.valid
    THEN [pc |-> "done", resp |-> ErrorResponse(400, validation.errors[1])]
    ELSE [pc |-> "update_select", resp |-> NoResp]

StartUpdateTask(p) ==
    /\ CanStart(p)
    /\ BeginProtected(p, "updateTask", UpdateTaskBodies,
                      [body \in UpdateTaskBodies |-> UpdateTaskEnter(body)])
    /\ UNCHANGED <<now, ticks, users, refresh_tokens, tasks, nextId, issued, consumed, registered>>

\* SELECT id, title, description, status, priority, due_date FROM tasks WHERE id = ... AND user_id = ...
UpdateTaskSelect(p) ==
    /\ req[p].pc = "update_select"
    /\ LET existingTasks == SelectTaskOfUser(tasks, req[p].body.id, req[p].user.userId) IN
       IF existingTasks = {}
       THEN Finish(p, ErrorResponse(404, "Task not found"))
       ELSE Goto(p, "update_write",
                 [userId |-> 0, email |-> "", rowId |-> 0,
                  task |-> CHOOSE t \in existingTasks : TRUE])
    /\ UNCHANGED <<now, ticks, users, refresh_tokens, tasks, nextId, nreq, issued, consumed, registered, overlapped>>

\* UPDATE tasks SET title = ..., description = ..., status = ..., priority = ...,
\* due_date = ..., updated_at = NOW() WHERE id = ... AND user_id = ... RETURNING ...
UpdateTaskWrite(p) ==
    /\ req[p].pc = "update_write"
    /\ LET merged == MergeTask(req[p].loc.task, validateUpdateTask(req[p].body.patch).data)
           set == [t \in tasks |->
                     [t EXCEPT !.title = merged.title, !.description = merged.description,
                               !.status = merged.status, !.priority = merged.priority,
                               !.due_date = merged.due_date, !.updated_at = now]]
           updatedTasks == {set[t] : t \in SelectTaskOfUser(tasks, req[p].body.id, req[p].user.userId)}
       IN
       /\ tasks' = UpdateTaskOfUser(tasks, req[p].body.id, req[p].user.userId, set)
       /\ Finish(p, SuccessResponse(200,
              IF updatedTasks = {} THEN [kind |-> "undefined"]
              ELSE [kind |-> "task", task |-> CHOOSE t \in updatedTasks : TRUE]))
    /\ UNCHANGED <<now, ticks, users, refresh_tokens, nextId, nreq, issued, consumed, registered, overlapped>>

(***************************************************************************)
(* DELETE /tasks/:id                                                       *)
(***************************************************************************)
DeleteTaskEnter(body) == [pc |-> "delete_delete", resp |-> NoResp]

StartDeleteTask(p) ==
    /\ CanStart(p)
    /\ BeginProtected(p, "deleteTask", TaskIdBodies,
                      [body \in TaskIdBodies |-> DeleteTaskEnter(body)])
    /\ UNCHANGED <<now, ticks, users, refresh_tokens, tasks, nextId, issued, consumed, registered>>

\* DELETE FROM tasks WHERE id = ... AND user_id = ... RETURNING id
DeleteTaskDelete(p) ==
    /\ req[p].pc = "delete_delete"
    /\ LET result == {t.id : t \in SelectTaskOfUser(tasks, req[p].body.id, req[p].user.userId)} IN
       /\ tasks' = DeleteTaskOfUser(tasks, req[p].body.id, req[p].user.userId)
       /\ IF result = {}
          THEN Finish(p, ErrorResponse(404, "Task not found"))
          ELSE Finish(p, SuccessResponse(200, NoData))
    /\ UNCHANGED <<now, ticks, users, refresh_tokens, nextId, nreq, issued, consumed, registered, overlapped>>

(***************************************************************************)
(* PATCH /tasks/:id/toggle                                                 *)
(***************************************************************************)
ToggleTaskEnter(body) == [pc |-> "toggle_select", resp |-> NoResp]

StartToggleTask(p) ==
    /\ CanStart(p)
    /\ BeginProtected(p, "toggleTask", TaskIdBodies,
                      [body \in TaskIdBodies |-> ToggleTaskEnter(body)])
    /\ UNCHANGED <<now, ticks, users, refresh_tokens, tasks, nextId, issued, consumed, registered>>

\* SELECT id, status FROM tasks WHERE id = ... AND user_id = ...
ToggleTaskSelect(p) ==
    /\ req[p].pc = "toggle_select"
    /\ LET existingTasks == SelectTaskOfUser(tasks, req[p].body.id, req[p].user.userId) IN
       IF existingTasks = {}
       THEN Finish(p, ErrorResponse(404, "Task not found"))
       ELSE Goto(p, "toggle_write",
                 [userId |-> 0, email |-> "", rowId |-> 0,
                  task |-> CHOOSE t \in existingTasks : TRUE])
    /\ UNCHANGED <<now, ticks, users, refresh_tokens, tasks, nextId, nreq, issued, consumed, registered, overlapped>>

\* UPDATE tasks SET status = ${newStatus}, updated_at = NOW() WHERE id = ... AND user_id = ... RETURNING ...
ToggleTaskWrite(p) ==
    /\ req[p].pc = "toggle_write"
    /\ LET newStatus == ToggledStatus(req[p].loc.task.status)
           set == [t \in tasks |-> [t EXCEPT !.status = newStatus, !.updated_at = now]]
           updatedTasks == {set[t] : t \in SelectTaskOfUser(tasks, req[p].body.id, req[p].user.userId)}
       IN
       /\ tasks' = UpdateTaskOfUser(tasks, req[p].body.id, req[p].user.userId, set)
       /\ Finish(p, SuccessResponse(200,
              IF updatedTasks = {} THEN [kind |-> "undefined"]
              ELSE [kind |-> "task", task |-> CHOOSE t \in updatedTasks : TRUE]))
    /\ UNCHANGED <<now, ticks, users, refresh_tokens, nextId, nreq, issued, consumed, registered, overlapped>>

(***************************************************************************)
(* GET /tasks                                                              *)
(***************************************************************************)

\* a JavaScript number: an integer or NaN
Num(v) == [nan |-> FALSE, v |-> v]
NaN == [nan |-> TRUE, v |-> 0]

\* Number.parseInt(s, 10) on the query strings of the model
parseInt(s) ==
    CASE s = "1"   -> Num(1)
      [] s = "2"   -> Num(2)
      [] s = "10"  -> Num(10)
      [] s = "0"   -> Num(0)
      [] s = "-1"  -> Num(0 - 1)
      [] s = "1000" -> Num(1000)
      [] OTHER     -> NaN

MathMax(a, b) == IF a.nan \/ b.nan THEN NaN ELSE IF a.v >= b.v THEN a ELSE b
MathMin(a, b) == IF a.nan \/ b.nan THEN NaN ELSE IF a.v <= b.v THEN a ELSE b

\* searchParams.get(name) || fallback
OrDefault(x, fallback) == IF Falsy(x) THEN fallback ELSE x

PageOf(query) == MathMax(Num(1), parseInt(OrDefault(query.page, "1")))
LimitOf(query) == MathMin(Num(100), MathMax(Num(1), parseInt(OrDefault(query.limit, "10"))))

\* title ILIKE '%' || search.trim() || '%' on the titles and searches of the
\* model (every title has a character): in the pattern, _ stands for any one
\* character and % for any string
ILike(title, search) ==
    \/ trim(search) = ""
    \/ trim(search) = "MILK" /\ title = "Buy milk"
    \/ trim(search) = "bob" /\ title = "Call Bob"
    \/ trim(search) \in {"_", "%"}

\* WHERE user_id = ... [AND status = ...] [AND title ILIKE ...]
MatchingTasks(rows, userId, query) ==
    {t \in rows :
        /\ t.user_id = userId
        /\ (~Falsy(query.status) => t.status = query.status)
        /\ (~Falsy(query.search) => ILike(t.title, query.search))}

\* ORDER BY created_at DESC: the orders the store may return the rows in
Orderings(rows) ==
    {order \in [1..Cardinality(rows) -> rows] :
        /\ \A i, j \in 1..Cardinality(rows) : i # j => order[i] # order[j]
        /\ \A i, j \in 1..Cardinality(rows) : i < j => order[i].created_at >= order[j].created_at}

\* variant, wrong on purpose: the OFFSET is dropped
LimitOffsetFirstPage(order, limit, offset) ==
    SubSeq(order, 1, IF limit < Len(order) THEN limit ELSE Len(order))

\* LIMIT ${limit} OFFSET ${offset}
LimitOffset(order, limit, offset) ==
    SubSeq(order, offset + 1, IF offset + limit < Len(order) THEN offset + limit ELSE Len(order))

\* Math.ceil(total / limit)
MathCeilDiv(total, limit) == (total + limit - 1) \div limit

NoQuery == [page |-> Absent, limit |-> Absent, status |-> Absent, search |-> Absent]

ListQueries ==
    {NoQuery,
     [NoQuery EXCEPT !.page = "2", !.limit = "1"],
     [NoQuery EXCEPT !.limit = "1"],
     [NoQuery EXCEPT !.status = "pending", !.search = " MILK "],
     [NoQuery EXCEPT !.search = "_"],
     [NoQuery EXCEPT !.page = "0", !.limit = "1000"],
     [NoQuery EXCEPT !.page = "-1", !.limit = ""],
     [NoQuery EXCEPT !.page = "abc"]}

GetTasksEnter(query) == [pc |-> "list_count", resp |-> NoResp]

\* the catch of getTasks
ListErrorResponse ==
    [status |-> 500, success |-> FALSE, error |-> "",
     data |-> [kind |-> "list", items |-> <<>>,
               pagination |-> [page |-> 1, limit |-> 10, total |-> 0, totalPages |-> 0]]]

StartGetTasks(p) ==
    /\ CanStart(p)
    /\ BeginProtected(p, "getTasks", ListQueries,
                      [query \in ListQueries |-> GetTasksEnter(query)])
    /\ UNCHANGED <<now, ticks, users, refresh_tokens, tasks, nextId, issued, consumed, registered>>

\* SELECT COUNT(*) as count FROM tasks WHERE ...
GetTasksCount(p) ==
    /\ req[p].pc = "list_count"
    /\ Goto(p, "list_select",
            [userId |-> 0, email |-> "", rowId |-> 0,
             total |-> Cardinality(MatchingTasks(tasks, req[p].user.userId, req[p].body))])
    /\ UNCHANGED <<now, ticks, users, refresh_tokens, tasks, nextId, nreq, issued, consumed, registered, overlapped>>

\* SELECT ... FROM tasks WHERE ... ORDER BY created_at DESC LIMIT ${limit} OFFSET ${offset}
GetTasksSelect(p) ==
    /\ req[p].pc = "list_select"
    /\ LET page == PageOf(req[p].body)
           limit == LimitOf(req[p].body)
           total == req[p].loc.total
       IN
       IF page.nan \/ limit.nan
       THEN \* the store rejects a LIMIT / OFFSET that is not a number
            Finish(p, ListErrorResponse)
       ELSE \E order \in Orderings(MatchingTasks(tasks, req[p].user.userId, req[p].body)) :
               LET items == LimitOffset(order, limit.v, (page.v - 1) * limit.v) IN
               /\ Return(p, SuccessResponse(200,
                      [kind |-> "list",
                       items |-> items,
                       pagination |-> [page |-> page.v, limit |-> limit.v, total |-> total,
                                       totalPages |-> MathCeilDiv(total, limit.v)]]))
               /\ pages' = pages \cup
                     {[userId |-> req[p].user.userId,
                       status |-> req[p].body.status, search |-> req[p].body.search,
                       page |-> page.v, limit |-> limit.v, items |-> items,
                       of |-> MatchingTasks(tasks, req[p].user.userId, req[p].body)]}
    /\ UNCHANGED <<now, ticks, users, refresh_tokens, tasks, nextId, nreq, issued, consumed, registered, overlapped>>

(***************************************************************************)
(* The task service in use: a@x.io and b@x.io registered in second 0, each *)
(* holding the tokens of its registration and one task.                    *)
(***************************************************************************)
SeedTasks ==
    {TaskRow(5, 1, [NoTaskFields EXCEPT !.title = "Buy milk"], 0),
     TaskRow(6, 3, [NoTaskFields EXCEPT !.title = "Call Bob", !.status = "in_progress"], 0)}

InitTasks ==
    /\ now = 0
    /\ ticks = 0
    /\ users = SeedUsers
    /\ refresh_tokens = {r \in SeedRefreshTokens : r.token.iat = 0}
    /\ tasks = SeedTasks
    /\ nextId = 7
    /\ req = [p \in Procs |-> IdleReq]
    /\ nreq = 0
    /\ issued = {pr \in SeedIssued : pr.refreshToken.iat = 0}
    /\ consumed = {}
    /\ registered = {[email |-> u.email, password |-> u.password_hash.of] : u \in SeedUsers}
    /\ overlapped = FALSE
    /\ pages = {}
    /\ NoBrowser

TaskStep(p) ==
    \/ StartGetTasks(p)
    \/ GetTasksCount(p)
    \/ GetTasksSelect(p)
    \/ StartCreateTask(p)
    \/ CreateTaskInsert(p)
    \/ StartGetTask(p)
    \/ GetTaskSelect(p)
    \/ StartUpdateTask(p)
    \/ UpdateTaskSelect(p)
    \/ UpdateTaskWrite(p)
    \/ StartDeleteTask(p)
    \/ DeleteTaskDelete(p)
    \/ StartToggleTask(p)
    \/ ToggleTaskSelect(p)
    \/ ToggleTaskWrite(p)

NextTasks == Tick \/ \E p \in Procs : TaskStep(p)

SpecTasks == InitTasks /\ [][NextTasks]_vars

(***************************************************************************)
(* The task service next to the session endpoints: as above, with clients  *)
(* that also rotate their refresh tokens and log out.                      *)
(***************************************************************************)
GateStep(p) ==
    \/ TaskStep(p)
    \/ StartRefresh(p)
    \/ RefreshSelect(p)
    \/ RefreshSelectUser(p)
    \/ RefreshDelete(p)
    \/ RefreshInsert(p)
    \/ StartLogout(p)
    \/ LogoutDelete(p)

NextGate == Tick \/ \E p \in Procs : GateStep(p)

SpecGate == InitTasks /\ [][NextGate]_vars

(***************************************************************************)
(* The whole API on a database in use: every route handler.                *)
(***************************************************************************)
ApiStep(p) ==
    \/ GateStep(p)
    \/ StartRegister(p)
    \/ RegisterSelect(p)
    \/ RegisterInsertUser(p)
    \/ RegisterInsertToken(p)
    \/ StartLogin(p)
    \/ LoginSelect(p)
    \/ LoginInsert(p)

NextApi == Tick \/ \E p \in Procs : ApiStep(p)

\* a@x.io is registered and holds a session and a task; b@x.io is not registered yet
InitApi ==
    /\ now = 0
    /\ ticks = 0
    /\ users = {u \in SeedUsers : u.id = 1}
    /\ refresh_tokens = {r \in SeedRefreshTokens : r.user_id = 1 /\ r.token.iat = 0}
    /\ tasks = {t \in SeedTasks : t.user_id = 1}
    /\ nextId = 7
    /\ req = [p \in Procs |-> IdleReq]
    /\ nreq = 0
    /\ issued = {pr \in SeedIssued : pr.refreshToken.userId = 1 /\ pr.refreshToken.iat = 0}
    /\ consumed = {}
    /\ registered = {[email |-> u.email, password |-> u.password_hash.of] :
                        u \in {v \in SeedUsers : v.id = 1}}
    /\ overlapped = FALSE
    /\ pages = {}
    /\ NoBrowser

SpecApi == InitApi /\ [][NextApi]_vars

(***************************************************************************)
(* Paging through a list: a@x.io holds two tasks created in the same       *)
(* second, and clients read the list page by page.                         *)
(***************************************************************************)
InitPaging ==
    /\ now = 0
    /\ ticks = 0
    /\ users = SeedUsers
    /\ refresh_tokens = {r \in SeedRefreshTokens : r.token.iat = 0}
    /\ tasks = SeedTasks \cup {TaskRow(7, 1, [NoTaskFields EXCEPT !.title = "Call Bob"], 0)}
    /\ nextId = 8
    /\ req = [p \in Procs |-> IdleReq]
    /\ nreq = 0
    /\ issued = {pr \in SeedIssued : pr.refreshToken.iat = 0}
    /\ consumed = {}
    /\ registered = {[email |-> u.email, password |-> u.password_hash.of] : u \in SeedUsers}
    /\ overlapped = FALSE
    /\ pages = {}
    /\ NoBrowser

PagingStep(p) ==
    \/ StartGetTasks(p)
    \/ GetTasksCount(p)
    \/ GetTasksSelect(p)

NextPaging == Tick \/ \E p \in Procs : PagingStep(p)

SpecPaging == InitPaging /\ [][NextPaging]_vars

(***************************************************************************)
(* The browser client (lib/auth.ts, client side).  Each fetchWithAuth call *)
(* c sends its requests to handler slot c.  A step of a call is the code   *)
(* between two awaits of the network: the script runs it without           *)
(* interruption.  The server is reachable: every fetch gets a response.    *)
(***************************************************************************)
\* the calls of the model: authApi.logout() and tasksApi.getOne(5)
Apis == {"logout", "getTask"}

\* if (accessToken) headers["Authorization"] = `Bearer ${accessToken}`
BearerOf(accessToken) ==
    IF accessToken = NoToken THEN NoHeader ELSE [scheme |-> "Bearer", token |-> accessToken]

\* response.ok
ResponseOk(response) == response.status >= 200 /\ response.status < 300

\* fetch(url, { ...options, headers }): the request reaches its handler
ClientRequest(c, api, header, body) ==
    CASE api = "refresh" ->
            LET enter == RefreshEnter(body.refreshToken, now) IN
            Arrive(c, "refresh", NoHeader, NoPayload, body, enter.pc, enter.resp)
      [] api = "logout" ->
            LET enter == LogoutEnter(header, body.refreshToken, now) IN
            Arrive(c, "logout", header, enter.user, enter.body, enter.pc, enter.resp)
      [] api = "getTask" ->
            LET gate == withAuth(header, now) IN
            IF ~gate.ok
            THEN Arrive(c, "getTask", header, NoPayload, NoBody, "done",
                        ErrorResponse(401, gate.error))
            ELSE Arrive(c, "getTask", header, gate.payload, body,
                        GetTaskEnter(body).pc, GetTaskEnter(body).resp)

\* fetchWithAuth is called: it reads the cached access token and sends the
\* request; authApi.logout builds the body from the cached refresh token
ClientCall(c) ==
    /\ call[c].pc = "idle"
    /\ \E api \in Apis :
         LET accessToken == localStorage.accessToken
             body == IF api = "logout" THEN [refreshToken |-> localStorage.refreshToken]
                     ELSE [id |-> 5]
         IN
         /\ ClientRequest(c, api, BearerOf(accessToken), body)
         /\ call' = [call EXCEPT ![c] =
                       [pc |-> "first", api |-> api, accessToken |-> accessToken,
                        body |-> body, refreshes |-> 0, resends |-> 0, sent |-> 1,
                        error |-> ""]]
    /\ UNCHANGED <<now, ticks, users, refresh_tokens, tasks, nextId, issued, consumed, registered,
                   localStorage, session>>

\* the end of fetchWithAuth: it returns the data or throws data.error, and
\* authApi.logout then clears the cache whatever the outcome
Settle(c, error, storage) ==
    /\ call' = [call EXCEPT ![c].pc = "done", ![c].error = error]
    /\ localStorage' = IF call[c].api = "logout" THEN NoTokens ELSE storage
    /\ UNCHANGED <<now, ticks, users, refresh_tokens, tasks, nextId, req, nreq, issued, consumed,
                   registered, overlapped, pages, session>>

\* throw new Error(data.error || "Request failed") when the response is not ok
ErrorOf(response) ==
    IF ResponseOk(response) THEN ""
    ELSE IF response.error = "" THEN "Request failed" ELSE response.error

\* the response of the first fetch: on 401 for a request that carried an
\* access token, refreshTokens() posts the cached refresh token, or fails at
\* once when there is none
ClientFirstResponse(c) ==
    /\ call[c].pc = "first"
    /\ Done(c)
    /\ LET response == req[c].resp IN
       IF response.status = 401 /\ call[c].accessToken # NoToken
       THEN IF localStorage.refreshToken = NoToken
            THEN /\ Settle(c, "Session expired. Please login again.", NoTokens)
            ELSE /\ ClientRequest(c, "refresh", NoHeader,
                                  [refreshToken |-> localStorage.refreshToken])
                 /\ call' = [call EXCEPT ![c].pc = "refreshing", ![c].refreshes = @ + 1,
                                         ![c].sent = @ + 1]
                 /\ UNCHANGED <<now, ticks, users, refresh_tokens, tasks, nextId, issued,
                                consumed, registered, localStorage, session>>
       ELSE Settle(c, ErrorOf(response), localStorage)

\* the response of /api/auth/refresh: setTokens and the resend with the new
\* access token, or clearTokens and 'Session expired'
ClientRefreshResponse(c) ==
    /\ call[c].pc = "refreshing"
    /\ Done(c)
    /\ LET response == req[c].resp
           refreshed == /\ ResponseOk(response)
                        /\ response.success
                        /\ response.data.kind = "tokens"
       IN
       IF refreshed
       THEN /\ localStorage' = response.data.tokens
            /\ session' = session \cup {response.data.tokens.refreshToken}
            /\ ClientRequest(c, call[c].api, [scheme |-> "Bearer",
                                              token |-> response.data.tokens.accessToken],
                             call[c].body)
            /\ call' = [call EXCEPT ![c].pc = "resent", ![c].resends = @ + 1,
                                    ![c].sent = @ + 1]
            /\ UNCHANGED <<now, ticks, users, refresh_tokens, tasks, nextId, issued,
                           consumed, registered>>
       ELSE Settle(c, "Session expired. Please login again.", NoTokens)

\* variant, wrong on purpose: a 401 for the resent request starts another refresh
ClientResendResponseRefreshing(c) ==
    /\ call[c].pc = "resent"
    /\ Done(c)
    /\ IF req[c].resp.status = 401 /\ localStorage.refreshToken # NoToken
       THEN /\ ClientRequest(c, "refresh", NoHeader,
                             [refreshToken |-> localStorage.refreshToken])
            /\ call' = [call EXCEPT ![c].pc = "refreshing", ![c].refreshes = @ + 1,
                                    ![c].sent = @ + 1]
            /\ UNCHANGED <<now, ticks, users, refresh_tokens, tasks, nextId, issued,
                           consumed, registered, localStorage, session>>
       ELSE Settle(c, ErrorOf(req[c].resp), localStorage)

\* the response of the resent request: whatever it is, the call ends
ClientResendResponse(c) ==
    /\ call[c].pc = "resent"
    /\ Done(c)
    /\ Settle(c, ErrorOf(req[c].resp), localStorage)

\* the browser logged in as a@x.io at second 0 and holds the pair it got; it
\* is still that second, or the access token has just expired
InitClient ==
    /\ now \in {0, ACCESS_TOKEN_EXPIRY}
    /\ ticks = 0
    /\ users = SeedUsers
    /\ refresh_tokens = {r \in SeedRefreshTokens : r.token.iat = 0}
    /\ tasks = SeedTasks
    /\ nextId = 7
    /\ req = [p \in Procs |-> IdleReq]
    /\ nreq = 0
    /\ issued = {pr \in SeedIssued : pr.refreshToken.iat = 0}
    /\ consumed = {}
    /\ registered = {[email |-> u.email, password |-> u.password_hash.of] : u \in SeedUsers}
    /\ overlapped = FALSE
    /\ pages = {}
    /\ localStorage = generateTokens([userId |-> 1, email |-> "a@x.io"], 0)
    /\ call = [c \in Procs |-> IdleCall]
    /\ session = {generateRefreshToken([userId |-> 1, email |-> "a@x.io"], 0)}

ClientStep(c) ==
    \/ ClientCall(c)
    \/ ClientFirstResponse(c)
    \/ ClientRefreshResponse(c)
    \/ ClientResendResponse(c)
    \/ RefreshSelect(c)
    \/ RefreshSelectUser(c)
    \/ RefreshDelete(c)
    \/ RefreshInsert(c)
    \/ LogoutDelete(c)
    \/ GetTaskSelect(c)

NextClient == Tick \/ \E c \in Procs : ClientStep(c)

\* every handler runs to its response and every response reaches the script
SpecClient == InitClient /\ [][NextClient]_vars /\ WF_vars(NextClient)

(***************************************************************************)
(* Properties.                                                             *)
(***************************************************************************)

\* the requests in slots p and q were in flight at the same time
Overlap(p, q) == req[q].n \in req[p].during \/ req[p].n \in req[q].during

\* C1: refresh tokens are single-use.  When the requests are processed one
\* after another, a POST /auth/refresh that presents a token which an earlier
\* refresh already exchanged (that refresh returned 200) is answered 401.
C1_RefreshTokenSingleUse ==
    ~overlapped =>
        \A p \in Procs :
            (req[p].kind = "refresh" /\ Done(p) /\ req[p].replay) => req[p].resp.status = 401

\* C2: of two POST /auth/refresh requests that present the same refresh token
\* and are in flight at the same time, at most one returns 200.
C2_ConcurrentRefreshOneWinner ==
    \A p, q \in Procs :
        (/\ p # q
         /\ req[p].kind = "refresh" /\ Done(p)
         /\ req[q].kind = "refresh" /\ Done(q)
         /\ req[p].body.refreshToken = req[q].body.refreshToken
         /\ Overlap(p, q))
        => ~(req[p].resp.status = 200 /\ req[q].resp.status = 200)

\* the handlers wrapped by withAuth, and those of them that name a task by id
TaskKinds == {"getTasks", "createTask", "getTask", "updateTask", "deleteTask", "toggleTask"}
TaskKindsById == {"getTask", "updateTask", "deleteTask", "toggleTask"}

\* the request in slot p takes this step
Acts(p) == req'[p] # req[p]

\* C3: user isolation.  A step of a task request authenticated as user A leaves
\* every task of another user as it was; a GET, PATCH (with a valid body),
\* DELETE or toggle of /tasks/:id sent by A for the id of a task owned by
\* another user, or for an id of no task, ends with 404 'Task not found'; and
\* every task in a GET /tasks response for A is owned by A.
C3_UserIsolation ==
    [][\A p \in Procs :
        (Acts(p) /\ req'[p].kind \in TaskKinds) =>
            LET A == req'[p].user.userId
                returns == req'[p].pc = "done"
                resp == req'[p].resp
            IN
            /\ \A t \in tasks : t.user_id # A => t \in tasks'
            /\ (/\ returns /\ req'[p].kind \in TaskKindsById
                /\ resp.status \notin {400, 401}
                /\ \/ \E t \in tasks : t.id = req'[p].body.id /\ t.user_id # A
                   \/ req'[p].body.id = 0)
               => resp = ErrorResponse(404, "Task not found")
            /\ (returns /\ req'[p].kind = "getTasks" /\ resp.status \notin {400, 401})
               => \A i \in 1..Len(resp.data.items) : resp.data.items[i].user_id = A
      ]_vars

\* C3 witness: user a@x.io asked to delete the task of b@x.io, was answered
\* 404 'Task not found', and the task is still there.
C3_Witness ==
    \E p \in Procs :
        /\ req[p].kind = "deleteTask" /\ Done(p)
        /\ req[p].user.userId = 1
        /\ req[p].body.id = 6
        /\ req[p].resp = ErrorResponse(404, "Task not found")
        /\ \E t \in tasks : t.id = 6 /\ t.user_id = 3

\* the header carries 'Bearer ' and a token signed as an access token that has
\* not expired at second t
BearsAccessToken(header, t) ==
    header.scheme = "Bearer" /\ header.token.kind = "access" /\ header.token.exp > t

\* C4: the Auth Gate.  A request to a handler wrapped by withAuth whose
\* Authorization header is not 'Bearer ' plus a token that verifies as an
\* access token is answered 401 on arrival: the handler never runs, and the
\* store is left as it was.  Otherwise the handler runs with exactly the userId
\* and email of the token.
C4_AuthGate ==
    [][\A p \in Procs :
        (Acts(p) /\ req'[p].kind \in TaskKinds) =>
            IF BearsAccessToken(req'[p].header, req'[p].at)
            THEN /\ req'[p].user = [ok |-> TRUE, userId |-> req'[p].header.token.userId,
                                    email |-> req'[p].header.token.email]
                 /\ req'[p].resp.status # 401
            ELSE /\ req'[p].pc = "done"
                 /\ req'[p].resp.status = 401
                 /\ req'[p].user = NoPayload
                 /\ <<users, refresh_tokens, tasks>>' = <<users, refresh_tokens, tasks>>
      ]_vars

\* C4 witness: a POST /tasks that carried an unexpired refresh token as its
\* bearer token was answered 401, and no task was stored.
C4_Witness ==
    \E p \in Procs :
        /\ req[p].kind = "createTask" /\ Done(p)
        /\ req[p].header.scheme = "Bearer"
        /\ req[p].header.token.kind = "refresh"
        /\ req[p].header.token.exp > req[p].at
        /\ req[p].resp = ErrorResponse(401, "Invalid or expired access token")
        /\ tasks = SeedTasks

\* C5: POST /auth/refresh goes past its lookup only for a token that passed
\* verifyRefreshToken and that has, at the lookup, a record in refresh_tokens
\* with expires_at later than now; otherwise the lookup ends the request with
\* 401 and refresh_tokens is left as it was.  A 200 is returned only by the
\* INSERT that follows that lookup, the user lookup and the DELETE.
C5_RefreshNeedsStoredUnexpiredRecord ==
    [][\A p \in Procs :
        LET token == req[p].body.refreshToken
            hasRecord == \E r \in refresh_tokens : r.token = token /\ r.expires_at > now
        IN
        /\ (req[p].pc = "refresh_select" /\ req'[p] # req[p]) =>
              IF hasRecord
              THEN req'[p].pc = "refresh_user"
              ELSE /\ req'[p].pc = "done"
                   /\ req'[p].resp.status = 401
                   /\ req'[p].resp.data = NoData
                   /\ refresh_tokens' = refresh_tokens
        /\ (req'[p].pc = "refresh_select" /\ req'[p].n # req[p].n) =>
              /\ req'[p].body.refreshToken.kind = "refresh"
              /\ req'[p].body.refreshToken.exp > now
        /\ (req'[p].pc = "refresh_user" /\ req[p].pc # "refresh_user") =>
              req[p].pc = "refresh_select"
        /\ (req'[p].pc = "refresh_delete" /\ req[p].pc # "refresh_delete") =>
              req[p].pc = "refresh_user"
        /\ (req'[p].pc = "refresh_insert" /\ req[p].pc # "refresh_insert") =>
              req[p].pc = "refresh_delete"
        /\ (req'[p].kind = "refresh" /\ req'[p].pc = "done" /\ req[p].pc # "done"
            /\ req'[p].resp.status = 200) => req[p].pc = "refresh_insert"
        /\ (req'[p].kind = "refresh" /\ req'[p].pc = "done" /\ req[p].pc # "done"
            /\ req'[p].resp.status = 401) => refresh_tokens' = refresh_tokens
      ]_vars

\* C5 witness: a correctly signed, unexpired refresh token whose record was
\* revoked is turned down at the lookup.
C5_Witness ==
    \E p \in Procs :
        /\ req[p].kind = "refresh" /\ Done(p)
        /\ req[p].body.refreshToken.kind = "refresh"
        /\ req[p].resp = ErrorResponse(401, "Refresh token expired or revoked")
        /\ \A r \in refresh_tokens : r.token # req[p].body.refreshToken

\* C6: the DELETE of POST /auth/logout, authenticated as user U: with a
\* refreshToken T in the body it removes no record other than (U, T); with no
\* refreshToken it removes exactly the records of U.  It adds none.
C6_LogoutFrame ==
    [][\A p \in Procs :
        (req[p].pc = "logout_delete" /\ req'[p].pc = "done") =>
            LET U == req[p].header.token.userId
                T == req[p].body.refreshToken
            IN
            IF T # NoToken
            THEN /\ refresh_tokens' \subseteq refresh_tokens
                 /\ \A r \in refresh_tokens \ refresh_tokens' : r.user_id = U /\ r.token = T
            ELSE refresh_tokens' = {r \in refresh_tokens : r.user_id # U}
      ]_vars

\* C6 witness: a logout has returned for a user who named another user's
\* refresh token, and that token's record is still in the store.
C6_Witness ==
    \E p \in Procs :
        /\ req[p].kind = "logout" /\ Done(p) /\ req[p].resp.status = 200
        /\ req[p].body.refreshToken.kind = "refresh"
        /\ req[p].body.refreshToken.userId # req[p].header.token.userId
        /\ \E r \in refresh_tokens : r.token = req[p].body.refreshToken

\* C7: the Auth Gate decides on the access token alone.  A request to a
\* handler wrapped by withAuth is let through exactly when its header carries
\* an unexpired access token, whatever refresh_tokens holds (after a logout,
\* a logout-everywhere or a rotation of the sibling refresh token), and no
\* step of such a request changes refresh_tokens.
C7_AuthGateIgnoresSessionStore ==
    [][\A p \in Procs :
        (Acts(p) /\ req'[p].kind \in TaskKinds) =>
            /\ refresh_tokens' = refresh_tokens
            /\ req'[p].n # req[p].n =>
                  /\ req'[p].user.ok <=> BearsAccessToken(req'[p].header, now)
                  /\ req'[p].resp.status = 401 <=> ~BearsAccessToken(req'[p].header, now)
      ]_vars

\* C7 witness: after an earlier request had removed every refresh-token record
\* of a user, a task request with that user's access token arrived and was
\* answered 200.
C7_Witness ==
    \E p \in Procs :
        /\ req[p].kind \in TaskKinds /\ Done(p)
        /\ req[p].n = 2 /\ req[p].during = {}
        /\ req[p].user.ok
        /\ req[p].resp.status = 200
        /\ \A r \in refresh_tokens : r.user_id # req[p].user.userId

\* C8: a login whose e-mail is not registered and a login whose password does
\* not match the registered one get the same response, 401 'Invalid email or
\* password', and leave refresh_tokens as it was.
C8_LoginFailuresIndistinguishable ==
    [][\A p \in Procs :
        (req[p].pc = "login_select" /\ req'[p] # req[p]) =>
            LET email == toLowerCase(req[p].body.email)
                unknown == \A u \in users : u.email # email
                wrong == \E u \in users :
                            u.email = email /\ u.password_hash.of # req[p].body.password
            IN
            (unknown \/ wrong) =>
                /\ req'[p].pc = "done"
                /\ req'[p].resp = ErrorResponse(401, "Invalid email or password")
                /\ refresh_tokens' = refresh_tokens
      ]_vars

\* C8 witness: a login with a registered e-mail and another password was refused.
C8_Witness ==
    \E p \in Procs :
        /\ req[p].kind = "login" /\ Done(p) /\ req[p].resp.status = 401
        /\ \E u \in users :
              u.email = toLowerCase(req[p].body.email)
              /\ u.password_hash.of # req[p].body.password

\* C9: a login that arrives after a registration with the same e-mail (lower-
\* cased) and password returned 201 is answered 200, with tokens of that user.
C9_LoginAfterRegistration ==
    \A p \in Procs :
        (req[p].kind = "login" /\ Done(p) /\ req[p].known) =>
            /\ req[p].resp.status = 200
            /\ req[p].resp.data.tokens.accessToken.email = toLowerCase(req[p].body.email)

\* C10: of the registrations that carry one e-mail (lower-cased), at most one
\* returns 201 and every other one 409; no two users share an e-mail.
C10_RegistrationConflict ==
    /\ \A p, q \in Procs :
          (/\ p # q
           /\ req[p].kind = "register" /\ Done(p)
           /\ req[q].kind = "register" /\ Done(q)
           /\ toLowerCase(req[p].body.email) = toLowerCase(req[q].body.email))
          => ~(req[p].resp.status = 201 /\ req[q].resp.status = 201)
    /\ \A p \in Procs :
          (req[p].kind = "register" /\ Done(p) /\ validateRegister(req[p].body).valid)
          => req[p].resp.status \in {201, 409}
    /\ \A u, v \in users : u.email = v.email => u = v

\* the row of table rows with the given id (there is at most one)
RowOf(rows, id) == CHOOSE t \in rows : t.id = id

\* C11: the UPDATE of PATCH /tasks/:id/toggle on a task its caller owns sets
\* status to pending if the status the request read was completed and to
\* completed otherwise, changes no other field of the row except updated_at
\* and no other row, and the response carries the row as written.  When no
\* two requests overlap the status read is the status before the UPDATE, so
\* a second toggle of a pending task makes it pending again and a toggle of an
\* in_progress task makes it completed.
C11_ToggleStatus ==
    [][\A p \in Procs :
        (/\ req[p].pc = "toggle_write" /\ req'[p].pc = "done"
         /\ \E t \in tasks : t.id = req[p].body.id /\ t.user_id = req[p].user.userId) =>
            LET old == RowOf(tasks, req[p].body.id)
                new == RowOf(tasks', req[p].body.id)
                read == req[p].loc.task.status
            IN
            /\ new.status = (IF read = "completed" THEN "pending" ELSE "completed")
            /\ ~overlapped => new.status = (IF old.status = "completed" THEN "pending"
                                            ELSE "completed")
            /\ new = [old EXCEPT !.status = new.status, !.updated_at = new.updated_at]
            /\ tasks' \ {new} = tasks \ {old}
            /\ req'[p].resp = SuccessResponse(200, [kind |-> "task", task |-> new])
      ]_vars

\* C11 witness: with no two requests overlapping, the second request was a
\* toggle of the task that started pending, and it made the task pending.
C11_Witness ==
    \E p \in Procs :
        /\ req[p].kind = "toggleTask" /\ Done(p) /\ ~overlapped
        /\ req[p].resp.status = 200
        /\ req[p].resp.data.kind = "task"
        /\ req[p].n = 2 /\ req[p].body.id = 5
        /\ req[p].resp.data.task.status = "pending"
        /\ \E t \in tasks : t.id = 5 /\ t.status = "pending"

\* C12: the UPDATE of a PATCH /tasks/:id that returns 200, with no two
\* requests overlapping: id, user_id and created_at of the row and every
\* field the body does not contain keep their values, and every field the
\* body contains gets the value of the body (a title or description trimmed,
\* a due date in ISO form, null as null).
C12_PartialUpdate ==
    [][\A p \in Procs :
        (/\ req[p].pc = "update_write" /\ req'[p].pc = "done"
         /\ req'[p].resp.status = 200
         /\ ~overlapped
         /\ \E t \in tasks : t.id = req[p].body.id /\ t.user_id = req[p].user.userId) =>
            LET old == RowOf(tasks, req[p].body.id)
                new == RowOf(tasks', req[p].body.id)
                patch == req[p].body.patch
            IN
            /\ new.id = old.id /\ new.user_id = old.user_id /\ new.created_at = old.created_at
            /\ new.title = (IF patch.title = Absent THEN old.title ELSE trim(patch.title))
            /\ new.description = (IF patch.description = Absent THEN old.description
                                  ELSE IF patch.description = Null THEN Null
                                  ELSE trim(patch.description))
            /\ new.status = (IF patch.status = Absent THEN old.status ELSE patch.status)
            /\ new.priority = (IF patch.priority = Absent THEN old.priority ELSE patch.priority)
            /\ new.due_date = (IF patch.due_date = Absent THEN old.due_date
                               ELSE IF patch.due_date = Null THEN Null
                               ELSE toISOString(patch.due_date))
      ]_vars

\* the request in slot p arrives in this step
Arrives(p) == req'[p].n # req[p].n

\* C13: a register, login, create-task or update-task request (the task
\* requests past the Auth Gate) whose body fails validation is answered 400
\* with the message of the first error the validator collected, on arrival:
\* the handler issues no store statement, and users, refresh_tokens and
\* tasks are left as they were.  An update with none of the five task fields
\* fails with 'At least one field must be provided'.
C13_ValidationFailure ==
    [][\A p \in Procs :
        LET r == req'[p]
            errors ==
                CASE r.kind = "register"   -> validateRegister(r.body).errors
                  [] r.kind = "login"      -> validateLogin(r.body).errors
                  [] r.kind = "createTask" -> validateCreateTask(r.body).errors
                  [] r.kind = "updateTask" -> validateUpdateTask(r.body.patch).errors
                  [] OTHER                 -> <<>>
        IN
        (/\ Arrives(p)
         /\ r.kind \in {"register", "login", "createTask", "updateTask"}
         /\ r.kind \in {"createTask", "updateTask"} => r.user.ok) =>
            /\ errors # <<>> =>
                  /\ r.pc = "done"
                  /\ r.resp = ErrorResponse(400, errors[1])
                  /\ <<users, refresh_tokens, tasks>>' = <<users, refresh_tokens, tasks>>
            /\ errors = <<>> => r.resp.status # 400
            /\ (r.kind = "updateTask" /\ r.body.patch = NoTaskFields) =>
                  r.resp = ErrorResponse(400, "At least one field must be provided")
            /\ (r.kind = "register" /\ r.body.email \notin WellFormedEmails /\ r.body.email # Absent) =>
                  r.resp = ErrorResponse(400, "Invalid email format")
      ]_vars

\* C13 witness: a PATCH /tasks/:id for an existing task of the caller, with a
\* body of none of the task fields, was answered 400 and the task is as it
\* was created.
C13_Witness ==
    \E p \in Procs :
        /\ req[p].kind = "updateTask" /\ Done(p) /\ req[p].user.ok
        /\ req[p].body.patch = NoTaskFields
        /\ req[p].resp = ErrorResponse(400, "At least one field must be provided")
        /\ \E t \in tasks : t.id = req[p].body.id /\ t.user_id = req[p].user.userId
                            /\ t.updated_at = t.created_at

\* q occurs in title, letter case ignored, on the titles and searches of the
\* model
ContainsIgnoreCase(title, q) ==
    \/ q = ""
    \/ q = "MILK" /\ title = "Buy milk"
    \/ q = "bob" /\ title = "Call Bob"

\* C14: the SELECT of a GET /tasks of user U with status s and search q
\* returns only tasks of U whose status is s (when s is given) and whose
\* title contains q, trimmed, whatever the letter case (when q is given); a
\* first page that has room for them holds all of these tasks.
C14_ListFilter ==
    [][\A p \in Procs :
        (/\ req[p].pc = "list_select" /\ req'[p].pc = "done"
         /\ req'[p].resp.status = 200) =>
            LET query == req[p].body
                expected ==
                    {t \in tasks :
                        /\ t.user_id = req[p].user.userId
                        /\ query.status # Absent => t.status = query.status
                        /\ query.search # Absent => ContainsIgnoreCase(t.title, trim(query.search))}
                data == req'[p].resp.data
                returned == {data.items[i] : i \in 1..Len(data.items)}
            IN
            /\ returned \subseteq expected
            /\ (data.pagination.page = 1 /\ data.pagination.limit >= Cardinality(expected))
                  => returned = expected
      ]_vars

Min(a, b) == IF a <= b THEN a ELSE b
Max(a, b) == IF a >= b THEN a ELSE b

\* C15: a GET /tasks answered 200 while no other request was in flight, with
\* T tasks matching its filter, effective page p and effective limit L,
\* reports total = T and totalPages = ceil(T / L) and returns
\* min(L, max(0, T - (p - 1) * L)) tasks.  Of 25 matching tasks with limit
\* 10, page 3 holds 5 and page 4 none.
C15_PageSize ==
    [][/\ \A p \in Procs :
            (/\ req[p].pc = "list_select" /\ req'[p].pc = "done"
             /\ req'[p].resp.status = 200
             /\ req[p].during = {}
             /\ \A q \in Procs \ {p} : ~InFlight(q) /\ req[q].n < req[p].n) =>
                LET T == Cardinality(MatchingTasks(tasks, req[p].user.userId, req[p].body))
                    data == req'[p].resp.data
                    L == data.pagination.limit
                    page == data.pagination.page
                IN
                /\ data.pagination.total = T
                /\ data.pagination.totalPages * L >= T
                /\ (data.pagination.totalPages - 1) * L < T \/ T = 0
                /\ T = 0 => data.pagination.totalPages = 0
                /\ Len(data.items) = Min(L, Max(0, T - (page - 1) * L))
       /\ LET rows == [i \in 1..25 |-> i] IN
             /\ Len(LimitOffset(rows, 10, (3 - 1) * 10)) = 5
             /\ LimitOffset(rows, 10, (4 - 1) * 10) = <<>>
             /\ MathCeilDiv(25, 10) = 3
      ]_vars

\* C15 witness: page 2 with limit 1 of a user with one task was answered 200
\* with no task and total 1.
C15_Witness ==
    \E p \in Procs :
        /\ req[p].kind = "getTasks" /\ Done(p) /\ req[p].resp.status = 200
        /\ ~overlapped
        /\ req[p].resp.data.pagination = [page |-> 2, limit |-> 1, total |-> 1, totalPages |-> 1]
        /\ req[p].resp.data.items = <<>>

\* C16: whatever the query parameters page and limit of a GET /tasks are
\* (absent, empty, zero, negative, above 100, not a number), the page the
\* handler works with is an integer >= 1, 1 when page is absent, and the
\* limit an integer in 1..100, 10 when limit is absent.
C16_EffectivePageAndLimit ==
    \A p \in Procs :
        (req[p].kind = "getTasks" /\ req[p].user.ok) =>
            LET page == PageOf(req[p].body)
                limit == LimitOf(req[p].body)
            IN
            /\ ~page.nan /\ page.v >= 1
            /\ ~limit.nan /\ limit.v \in 1..100
            /\ req[p].body.page = Absent => page.v = 1
            /\ req[p].body.limit = Absent => limit.v = 10

\* the elements of a sequence
Range(seq) == {seq[i] : i \in 1..Len(seq)}

\* C17: pagination is stable.  Every page is ordered by created_at
\* descending and holds no task twice; two different pages cut with the same
\* filter and limit from the same rows of a user share no task, and pages 1
\* and 2, when the rows fit in two pages, hold all of the rows between them,
\* also when rows have the same created_at.
C17_PaginationStable ==
    /\ \A e \in pages :
          \A i, j \in 1..Len(e.items) :
              i < j => /\ e.items[i].created_at >= e.items[j].created_at
                       /\ e.items[i] # e.items[j]
    /\ \A e1, e2 \in pages :
          (/\ e1.userId = e2.userId /\ e1.status = e2.status /\ e1.search = e2.search
           /\ e1.limit = e2.limit /\ e1.of = e2.of
           /\ e1.page # e2.page) =>
              /\ Range(e1.items) \cap Range(e2.items) = {}
              /\ (e1.page = 1 /\ e2.page = 2 /\ Cardinality(e1.of) <= 2 * e1.limit)
                    => Range(e1.items) \cup Range(e2.items) = e1.of

\* C18: every response carries a boolean success, and every response with
\* success = false carries an error string and no data.
C18_ResponseShape ==
    \A p \in Procs :
        Done(p) =>
            /\ req[p].resp.success \in BOOLEAN
            /\ ~req[p].resp.success =>
                  /\ req[p].resp.error # ""
                  /\ req[p].resp.data = NoData

\* C19: a user may hold several refresh tokens.  The INSERT of a login whose
\* credential check passed, for a user who has refresh-token records, adds
\* one record, removes none, and the login returns 200; no step of a refresh
\* and no logout that names a token removes a record of another token.
C19_SeveralSessions ==
    [][\A p \in Procs :
        /\ (/\ req[p].pc = "login_insert" /\ Acts(p)
            /\ \E r \in refresh_tokens : r.user_id = req[p].loc.userId) =>
              /\ req'[p].resp.status = 200
              /\ refresh_tokens \subseteq refresh_tokens'
              /\ Cardinality(refresh_tokens') = Cardinality(refresh_tokens) + 1
        /\ (req[p].kind = "refresh" /\ Acts(p) /\ InFlight(p)) =>
              \A r \in refresh_tokens :
                  r.token # req[p].body.refreshToken => r \in refresh_tokens'
        /\ (/\ req[p].pc = "logout_delete" /\ Acts(p)
            /\ req[p].body.refreshToken # NoToken) =>
              \A r \in refresh_tokens :
                  r.token # req[p].body.refreshToken => r \in refresh_tokens'
      ]_vars

\* C20: a successful POST /tasks.  The INSERT of createTask adds exactly one
\* row under an id no row had, owned by the user of the access token (also when
\* the body names another user_id), with status pending when the body has no
\* status and priority medium when it has no priority; every row that existed
\* is left as it was, and the response is 201 with the new row.
C20_CreateTask ==
    [][\A p \in Procs :
        (req[p].pc = "create_insert" /\ Acts(p)) =>
            /\ BearsAccessToken(req[p].header, req[p].at)
            /\ req'[p].resp.status = 201
            /\ req'[p].resp.success
            /\ tasks \subseteq tasks'
            /\ Cardinality(tasks') = Cardinality(tasks) + 1
            /\ \A t \in tasks' \ tasks :
                  /\ t.id \notin {x.id : x \in tasks}
                  /\ t.user_id = req[p].header.token.userId
                  /\ (req[p].body.status = Absent => t.status = "pending")
                  /\ (req[p].body.status # Absent => t.status = req[p].body.status)
                  /\ (req[p].body.priority = Absent => t.priority = "medium")
                  /\ (req[p].body.priority # Absent => t.priority = req[p].body.priority)
                  /\ req'[p].resp.data = [kind |-> "task", task |-> t]
      ]_vars

\* C20 witness: user 1 posted a body without status and priority that names
\* user 3 as owner; the 201 response carries a pending, medium task of user 1,
\* and the seeded tasks are still there.
C20_Witness ==
    \E p \in Procs :
        /\ req[p].kind = "createTask" /\ Done(p)
        /\ req[p].resp.status = 201
        /\ req[p].header.token.userId = 1
        /\ "user_id" \in DOMAIN req[p].body
        /\ req[p].body.user_id = 3
        /\ req[p].resp.data.task \in tasks
        /\ req[p].resp.data.task.user_id = 1
        /\ req[p].resp.data.task.status = "pending"
        /\ req[p].resp.data.task.priority = "medium"
        /\ SeedTasks \subseteq tasks

\* C21: the UPDATE of a PATCH /tasks/:id whose body has description: null, on
\* a task of the caller whose description is not null, returns 200 and leaves
\* the description of the row null.
C21_NullClearsDescription ==
    [][\A p \in Procs :
        (/\ req[p].pc = "update_write" /\ req'[p].pc = "done"
         /\ req[p].body.patch.description = Null
         /\ \E t \in tasks : /\ t.id = req[p].body.id
                             /\ t.user_id = req[p].user.userId
                             /\ t.description # Null) =>
            /\ req'[p].resp.status = 200
            /\ RowOf(tasks', req[p].body.id).description = Null
      ]_vars

\* C22: fetchWithAuth.  A 401 for a first request that carried the cached
\* access token is followed by one POST /auth/refresh with the cached refresh
\* token (or, with no refresh token cached, by the failure below); a 200 of
\* that refresh stores the pair of the response and resends the request with
\* the new access token; any other response clears both cached tokens and the
\* call fails with 'Session expired. Please login again.'; the response of the
\* resent request ends the call.  No call refreshes or resends more than once
\* or sends more than three requests, and every call that started ends.
C22_FetchWithAuth ==
    /\ [][\A c \in Procs :
            LET response == req[c].resp
                expired == "Session expired. Please login again."
            IN
            /\ (/\ call[c].pc = "first" /\ call'[c] # call[c]
                /\ response.status = 401 /\ call[c].accessToken # NoToken) =>
                  IF localStorage.refreshToken # NoToken
                  THEN /\ call'[c].pc = "refreshing"
                       /\ req'[c].n # req[c].n
                       /\ req'[c].kind = "refresh"
                       /\ req'[c].body.refreshToken = localStorage.refreshToken
                  ELSE /\ call'[c].pc = "done" /\ call'[c].error = expired
                       /\ localStorage' = NoTokens
            /\ (call[c].pc = "refreshing" /\ call'[c] # call[c]) =>
                  IF response.status = 200
                  THEN /\ localStorage' = response.data.tokens
                       /\ call'[c].pc = "resent"
                       /\ req'[c].n # req[c].n
                       /\ req'[c].kind = call[c].api
                       /\ req'[c].header = [scheme |-> "Bearer",
                                            token |-> response.data.tokens.accessToken]
                       /\ call'[c].body = call[c].body
                  ELSE /\ call'[c].pc = "done" /\ call'[c].error = expired
                       /\ localStorage' = NoTokens
                       /\ req' = req
            /\ (call[c].pc = "resent" /\ call'[c] # call[c]) =>
                  call'[c].pc = "done" /\ req' = req
            /\ call'[c].refreshes <= 1 /\ call'[c].resends <= 1 /\ call'[c].sent <= 3
            /\ call'[c].sent = 1 + call'[c].refreshes + call'[c].resends \/ call'[c].pc = "idle"
         ]_vars
    /\ \A c \in Procs : (call[c].pc # "idle") ~> (call[c].pc = "done")

\* C22 witness: a call got 401 with its cached access token, refreshed once,
\* resent once and returned the data of the resent request, and the cache
\* holds a pair issued after the one the call started with.
C22_Witness ==
    \E c \in Procs :
        /\ call[c].pc = "done" /\ call[c].api = "getTask"
        /\ call[c].refreshes = 1 /\ call[c].resends = 1 /\ call[c].error = ""
        /\ req[c].resp.status = 200
        /\ localStorage.accessToken.iat > call[c].accessToken.iat

\* C23: logout everywhere is final.  Once a POST /auth/logout without a
\* refreshToken has returned 200 for user U, the INSERT of a POST /auth/refresh
\* that presented a token of U issued no later than that logout arrived adds
\* no refresh-token record for U and does not return 200.
C23_LogoutEverywhereIsFinal ==
    [][\A p, q \in Procs :
        (/\ req[p].pc = "refresh_insert" /\ Acts(p)
         /\ req[q].kind = "logout" /\ Done(q)
         /\ req[q].resp.status = 200
         /\ req[q].body.refreshToken = NoToken
         /\ req[q].user.userId = req[p].loc.userId
         /\ req[p].body.refreshToken.iat <= req[q].at) =>
            /\ req'[p].resp.status # 200
            /\ {r \in refresh_tokens' : r.user_id = req[p].loc.userId}
                  \subseteq refresh_tokens
      ]_vars

\* C24: after authApi.logout() has completed, with no other call of the
\* browser still running, refresh_tokens holds no unexpired record of a
\* refresh token the browser has held in its cache, whether or not the logout
\* request had to be resent after a refresh.
C24_ClientLogoutRevokesSession ==
    (/\ \E c \in Procs : call[c].api = "logout" /\ call[c].pc = "done"
     /\ \A c \in Procs : call[c].pc \in {"idle", "done"}) =>
        \A r \in refresh_tokens : r.token \in session => r.expires_at <= now

\* refresh tokens the server has issued to the browser: those it has held in
\* its cache and those of refresh responses it has not read yet
IssuedToBrowser ==
    session \cup {req[c].resp.data.tokens.refreshToken :
                    c \in {d \in Procs : /\ req[d].kind = "refresh" /\ Done(d)
                                         /\ req[d].resp.status = 200}}

\* C25: concurrent calls of one browser that refresh with the same cached
\* refresh token do not log the browser out.  While no call is a logout, a
\* failed refresh with a token that has not expired clears the cache only if
\* refresh_tokens holds no unexpired record of a token issued to the browser;
\* and once all calls have ended after a refresh, the cached refresh token is
\* the latest one issued to the browser and has a record in refresh_tokens.
C25_ConcurrentRefreshKeepsSession ==
    /\ [][\A c \in Procs :
            (/\ \A d \in Procs : call[d].api # "logout"
             /\ call[c].pc = "refreshing" /\ call'[c].pc = "done"
             /\ req[c].body.refreshToken.exp > now) =>
                \A r \in refresh_tokens :
                    r.token \in IssuedToBrowser => r.expires_at <= now
         ]_vars
    /\ []((/\ \A d \in Procs : call[d].api = "getTask" /\ call[d].pc = "done"
                                 /\ call[d].refreshes = 1
           /\ \E r \in refresh_tokens : r.token \in IssuedToBrowser /\ r.expires_at > now) =>
              /\ \E r \in refresh_tokens : r.token = localStorage.refreshToken
              /\ \A t \in IssuedToBrowser : t.iat <= localStorage.refreshToken.iat)

\* the fields a PATCH body contains, and the value it asks for in each
PatchFields(patch) == {f \in DOMAIN NoTaskFields : patch[f] # Absent}

Requested(patch, f) ==
    CASE f = "title" -> trim(patch.title)
      [] f = "description" -> IF patch.description = Null THEN Null ELSE trim(patch.description)
      [] f = "due_date" -> IF patch.due_date = Null THEN Null ELSE toISOString(patch.due_date)
      [] OTHER -> patch[f]

\* C26: concurrent PATCH /tasks/:id requests with disjoint fields.  When the
\* UPDATE of one returns 200 after an overlapping PATCH of the same user on
\* the same task, with no field in common, has returned 200, the row holds
\* the values both bodies asked for.
C26_DisjointUpdatesBothApply ==
    [][\A p, q \in Procs :
        (/\ req[p].pc = "update_write" /\ req'[p].pc = "done"
         /\ req'[p].resp.status = 200
         /\ req[q].kind = "updateTask" /\ Done(q)
         /\ req[q].resp.status = 200
         /\ Overlap(p, q)
         /\ req[q].body.id = req[p].body.id
         /\ req[q].user.userId = req[p].user.userId
         /\ PatchFields(req[p].body.patch) \cap PatchFields(req[q].body.patch) = {}
         /\ \E t \in tasks' : t.id = req[p].body.id) =>
            LET row == RowOf(tasks', req[p].body.id) IN
            /\ \A f \in PatchFields(req[p].body.patch) :
                  row[f] = Requested(req[p].body.patch, f)
            /\ \A f \in PatchFields(req[q].body.patch) :
                  row[f] = Requested(req[q].body.patch, f)
      ]_vars

\* C27: toggles of one task are atomic.  When the UPDATE of a toggle ends
\* its request after an overlapping toggle of the same task by the same user
\* has returned 200 with status s, and no other request has run, the row has
\* the status a toggle of s gives: the two toggles count as two.
C27_ToggleAtomic ==
    [][\A p, q \in Procs :
        (/\ req[p].pc = "toggle_write" /\ req'[p].pc = "done"
         /\ req'[p].resp.status = 200
         /\ req[q].kind = "toggleTask" /\ Done(q)
         /\ req[q].resp.status = 200
         /\ req[q].resp.data.kind = "task"
         /\ Overlap(p, q)
         /\ nreq = 2
         /\ req[q].body.id = req[p].body.id
         /\ \E t \in tasks' : t.id = req[p].body.id) =>
            RowOf(tasks', req[p].body.id).status =
                (IF req[q].resp.data.task.status = "completed" THEN "pending"
                 ELSE "completed")
      ]_vars

\* C28: a PATCH /tasks/:id or PATCH /tasks/:id/toggle that has returned 200
\* carries the updated row in its response; when the row was deleted between
\* the handler's SELECT and its UPDATE the response is 404.
C28_SuccessCarriesTask ==
    \A p \in Procs :
        (req[p].kind \in {"updateTask", "toggleTask"} /\ Done(p)) =>
            /\ req[p].resp.status = 200 => req[p].resp.data.kind = "task"
            /\ req[p].resp.status \in {200, 400, 401, 404}

\* C29: issued refresh tokens are distinct.  The INSERT of a registration,
\* login or refresh stores a token that no record holds and that differs from
\* every refresh token issued before, so the unique-token constraint never
\* rejects it (no 500), and the token a refresh returns is not the token it
\* consumed.
C29_IssuedTokensDistinct ==
    [][\A p \in Procs :
        (/\ req[p].pc \in {"register_insert_token", "login_insert", "refresh_insert"}
         /\ Acts(p)) =>
            /\ req'[p].resp.status \in {200, 201}
            /\ req'[p].resp.data.tokens.refreshToken
                  \notin {pr.refreshToken : pr \in issued}
            /\ req[p].kind = "refresh" =>
                  req'[p].resp.data.tokens.refreshToken # req[p].body.refreshToken
      ]_vars

\* C30: a refresh token is bound to one user.  Every record of refresh_tokens
\* has the user_id its token was signed for, and both tokens of the pair a
\* POST /auth/refresh returned carry the userId and e-mail of the token it
\* consumed.
C30_TokenBoundToUser ==
    /\ \A r \in refresh_tokens : r.user_id = r.token.userId
    /\ \A p \in Procs :
          (req[p].kind = "refresh" /\ Done(p) /\ req[p].resp.status = 200) =>
              LET consumedToken == req[p].body.refreshToken
                  tokens == req[p].resp.data.tokens
              IN
              /\ tokens.accessToken.userId = consumedToken.userId
              /\ tokens.refreshToken.userId = consumedToken.userId
              /\ tokens.accessToken.email = consumedToken.email
              /\ tokens.refreshToken.email = consumedToken.email

\* C30 witness: two users hold refresh-token records, and a refresh of a
\* token of a@x.io has returned 200 with a pair whose record is in the store.
C30_Witness ==
    /\ \E r1, r2 \in refresh_tokens : r1.user_id # r2.user_id
    /\ \E p \in Procs :
          /\ req[p].kind = "refresh" /\ Done(p)
          /\ req[p].resp.status = 200
          /\ req[p].body.refreshToken.userId = 1
          /\ \E r \in refresh_tokens : r.token = req[p].resp.data.tokens.refreshToken

====
